---- MODULE Spec2Model ----
(***************************************************************************)
(* libs/hwui FrameBuilder: the constructor walks the layer-update queue    *)
(* and the root RenderNodes and defers every recorded op into the layer    *)
(* builder on top of mLayerStack.  The C++ recursion is modelled by an     *)
(* explicit call stack; each action is one handler (or the part of one     *)
(* handler between two recursive calls).                                   *)
(*                                                                         *)
(* Conventions: vectors keep the 0-based indices of the code (element i    *)
(* of a vector is v[i + 1]); matrices of the inputs are translations, so   *)
(* a transform is a pair [x, y]; alpha 1.0f is AlphaOne; z is counted in   *)
(* units of 0.05f.                                                         *)
(***************************************************************************)
EXTENDS Integers, Sequences, FiniteSets, TLC

VARIABLES
    layers,             \* LayerUpdateQueue entries (constructor argument)
    nodes,              \* root RenderNodes (constructor argument)
    clip,               \* clip rect (constructor argument)
    renderNodes,        \* RenderNode id -> properties and display list
    skipInOrderDraw,    \* RenderNodeOp::skipInOrderDraw, per <<node, opIndex>>
    mLayerBuilders,     \* FrameBuilder::mLayerBuilders
    mLayerStack,        \* FrameBuilder::mLayerStack
    mCanvasState,       \* CanvasState: the stack of snapshots
    stack,              \* call stack of the constructor
    log,                \* calls made so far (deferShadow, child bodies, op dispatch)
    nextId,             \* allocation counter of mAllocator
    cleared,            \* indices of the builders LayerBuilder::clear() was called on
    hierarchy,          \* RenderNode id -> staging and synced display list, parent count
    parser,             \* PathParser: arguments, out-parameters and result of one call
    usb                 \* writeBacklightValue: its locals and the libusb calls it made

vars == <<layers, nodes, clip, renderNodes, skipInOrderDraw, mLayerBuilders,
          mLayerStack, mCanvasState, stack, log, nextId, cleared, hierarchy,
          parser, usb>>

\* State of the other units; the FrameBuilder never touches it.
outside == <<hierarchy, parser, usb>>

input == <<layers, nodes, clip, renderNodes>>

----------------------------------------------------------------------------
(* Scales and sizes *)

AlphaOne == 16
CasterZThreshold == 2
ViewportWidth == 10
ViewportHeight == 10
\* uint32_t arithmetic wraps modulo UIntModulus (a stand-in for 2^32, which
\* is beyond the integers of the model checker)
UIntModulus == 65536

NumNodes == 4
NodeIds == 1 .. NumNodes

----------------------------------------------------------------------------
(* Rect.h *)

Max(a, b) == IF a >= b THEN a ELSE b
Min(a, b) == IF a <= b THEN a ELSE b

Rect(l, t, r, b) == [left |-> l, top |-> t, right |-> r, bottom |-> b]
EmptyRect == Rect(0, 0, 0, 0)
isEmpty(r) == r.left >= r.right \/ r.top >= r.bottom
getWidth(r) == r.right - r.left
getHeight(r) == r.bottom - r.top
doIntersect(a, b) ==
    Rect(Max(a.left, b.left), Max(a.top, b.top),
         Min(a.right, b.right), Min(a.bottom, b.bottom))
intersects(a, b) == ~isEmpty(doIntersect(a, b))
unionWith(a, b) ==
    IF isEmpty(a) THEN b
    ELSE IF isEmpty(b) THEN a
    ELSE Rect(Min(a.left, b.left), Min(a.top, b.top),
              Max(a.right, b.right), Max(a.bottom, b.bottom))
\* Matrix4::mapRect for a translation
mapRect(m, r) == Rect(r.left + m.x, r.top + m.y, r.right + m.x, r.bottom + m.y)
outset(r, d) == Rect(r.left - d, r.top - d, r.right + d, r.bottom + d)

Translate(x, y) == [x |-> x, y |-> y]
Identity == Translate(0, 0)
multiply(m, n) == Translate(m.x + n.x, m.y + n.y)
loadInverse(m) == Translate(0 - m.x, 0 - m.y)

\* (uint32_t) of an int
ToUInt32(v) == v % UIntModulus

----------------------------------------------------------------------------
(* Sequence helpers *)

Last(s) == s[Len(s)]
Front(s) == SubSeq(s, 1, Len(s) - 1)
RECURSIVE SeqSum(_)
SeqSum(s) == IF s = <<>> THEN 0 ELSE Head(s) + SeqSum(Tail(s))

----------------------------------------------------------------------------
(* Recorded ops (RecordedOp.h) *)

\* line 558; colours are small numbers
SK_ColorBLACK == 0
NoPaint ==
    [antiAlias |-> FALSE, pathEffect |-> FALSE, alpha |-> 255, strokeWidth |-> 0,
     color |-> SK_ColorBLACK]
Paint(aa, pe) == [NoPaint EXCEPT !.antiAlias = aa, !.pathEffect = pe]

\* What a bitmap, patch or text op draws and what its bake resolves to: the
\* generation id and colour type of the bitmap, the xfermode of the paint,
\* the kind of the baked transform ("Translate": a pure translation; "Simple":
\* a positive scale; "NegativeScale"; "Rotated": not simple) and the clip
\* state ("null": no clip state at all)
Bitmap(generationId, alpha8, xfermode, transform, clipState) ==
    [generationId |-> generationId, alpha8 |-> alpha8, xfermode |-> xfermode,
     transform |-> transform, clipState |-> clipState]
NoBitmap == Bitmap(0, FALSE, "SrcOver", "Simple", "null")

Op(id, bounds, paint, child) ==
    [opId |-> id, unmappedBounds |-> bounds, localMatrix |-> Identity,
     paint |-> paint, renderNode |-> child, bitmap |-> NoBitmap]
BitmapOp(bounds, bitmap) == [Op("BitmapOp", bounds, NoPaint, 0) EXCEPT !.bitmap = bitmap]
PatchOp(bounds, bitmap) == [Op("PatchOp", bounds, NoPaint, 0) EXCEPT !.bitmap = bitmap]
TextOp(bounds, color, bitmap) ==
    [Op("TextOp", bounds, [NoPaint EXCEPT !.color = color], 0) EXCEPT !.bitmap = bitmap]
RectOp(bounds, paint) == Op("RectOp", bounds, paint, 0)
RenderNodeOp(child) == Op("RenderNodeOp", EmptyRect, NoPaint, child)
BeginLayerOp(bounds, paint) == Op("BeginLayerOp", bounds, paint, 0)
EndLayerOp == Op("EndLayerOp", EmptyRect, NoPaint, 0)
BeginUnclippedLayerOp(bounds) == Op("BeginUnclippedLayerOp", bounds, NoPaint, 0)
EndUnclippedLayerOp == Op("EndUnclippedLayerOp", EmptyRect, NoPaint, 0)
NoOp == Op("None", EmptyRect, NoPaint, 0)

----------------------------------------------------------------------------
(* BakedOpState *)

\* The nodes whose display lists are being traversed, outermost first.
RECURSIVE NodePath(_)
NodePath(st) ==
    IF st = <<>> THEN <<>>
    ELSE IF st[Len(st)].fn = "deferNodeOps"
         THEN Append(NodePath(SubSeq(st, 1, Len(st) - 1)), st[Len(st)].node)
         ELSE NodePath(SubSeq(st, 1, Len(st) - 1))

\* Where an op comes from: the layer-update entry being processed (-1 while
\* the root nodes are drawn) and the nodes traversed down to the op.
Path(st) ==
    [entry |-> IF st[1].pc = "layerRestore" THEN st[1].i ELSE -1,
     nodes |-> NodePath(st)]
PathWith(st, node) == [Path(st) EXCEPT !.nodes = Append(@, node)]
NoPath == [entry |-> -1, nodes |-> <<>>]

BakedOpState(id, op, bounds, snapshot, path) ==
    [id |-> id, opId |-> op.opId, op |-> op, clippedBounds |-> bounds,
     transform |-> snapshot.transform, alpha |-> snapshot.alpha,
     path |-> path, layer |-> -1]

\* BakedOpState::tryConstruct / tryStrokeableOpConstruct: bounds mapped by
\* snapshot.transform * op.localMatrix and intersected with the clip.
BakedBounds(snapshot, op, strokeOutset) ==
    doIntersect(mapRect(multiply(snapshot.transform, op.localMatrix),
                        outset(op.unmappedBounds, strokeOutset)),
                snapshot.clip)

----------------------------------------------------------------------------
(* LayerBuilder *)

OpBatchType == {"Bitmap", "MergedPatch", "Patch", "AlphaMaskTexture", "Text",
                "ColorText", "Vertices", "AlphaVertices", "Shadow", "Functor",
                "TextureLayer", "CopyToLayer", "CopyFromLayer"}

LayerBuilder(width, height, repaintRect, beginLayerOp, renderNode) ==
    [width |-> width, height |-> height, repaintRect |-> repaintRect,
     beginLayerOp |-> beginLayerOp, renderNode |-> renderNode,
     batches |-> <<>>, activeUnclippedSaveLayers |-> <<>>, clearRects |-> <<>>,
     viewportClip |-> Rect(0, 0, width, height),
     received |-> <<>>]     \* what the builder was handed, in order (history)

OpBatch(batchId, state) ==
    [batchId |-> batchId, bounds |-> state.clippedBounds, ops |-> <<state>>,
     merging |-> FALSE, mergeId |-> 0]
MergingOpBatch(batchId, mergeId, state) ==
    [OpBatch(batchId, state) EXCEPT !.merging = TRUE, !.mergeId = mergeId]

\* the most recent batch of this batchId, whatever was batched after it
locateInsertIndexIgnoringOverlap(batches, batchId, clippedBounds) ==
    LET matching == {i \in 1 .. Len(batches) :
                        batches[i].batchId = batchId /\ ~batches[i].merging}
    IN  IF matching = {} THEN 0
        ELSE CHOOSE i \in matching : \A j \in matching : j <= i

\* The batch the op is appended to (0: a new batch is started): the most
\* recent batch of this batchId, unless a later batch overlaps the op.
locateInsertIndex(batches, batchId, clippedBounds) ==
    LET matching == {i \in 1 .. Len(batches) :
                        batches[i].batchId = batchId /\ ~batches[i].merging}
    IN  IF matching = {} THEN 0
        ELSE LET t == CHOOSE i \in matching : \A j \in matching : j <= i
             IN  IF \E j \in (t + 1) .. Len(batches) :
                        intersects(batches[j].bounds, clippedBounds)
                 THEN 0
                 ELSE t

Received(kind, opId, rect, layer, batchId) ==
    [kind |-> kind, opId |-> opId, rect |-> rect, layer |-> layer, batchId |-> batchId]

batchOp(lb, state, batchId) ==
    LET t == locateInsertIndex(lb.batches, batchId, state.clippedBounds)
        got == Received("op", state.opId, state.clippedBounds, state.layer, batchId)
    IN  IF t = 0
        THEN [lb EXCEPT !.batches = Append(@, OpBatch(batchId, state)),
                        !.received = Append(@, got)]
        ELSE [lb EXCEPT !.batches[t].ops = Append(@, state),
                        !.batches[t].bounds = unionWith(@, state.clippedBounds),
                        !.received = Append(@, got)]

RECURSIVE UnionAll(_)
UnionAll(rects) ==
    IF rects = <<>> THEN EmptyRect ELSE unionWith(Head(rects), UnionAll(Tail(rects)))

\* The pending clears are issued as one op before the next draw.
flushLayerClears(lb, id) ==
    IF lb.clearRects = <<>> THEN lb
    ELSE LET clearOp == Op("SimpleRectsOp", UnionAll(lb.clearRects), NoPaint, 0)
             state == [id |-> id, opId |-> "SimpleRectsOp", op |-> clearOp,
                       clippedBounds |-> clearOp.unmappedBounds,
                       transform |-> Identity, alpha |-> AlphaOne,
                       path |-> NoPath, layer |-> -1]
         IN  batchOp([lb EXCEPT !.clearRects = <<>>], state, "Vertices")

onDeferOp(lb, state) ==
    IF state.opId # "CopyToLayerOp" THEN flushLayerClears(lb, state.id - 1) ELSE lb

deferUnmergeableOp(lb, state, batchId) == batchOp(onDeferOp(lb, state), state, batchId)

\* The op joins the latest merging batch of its batch id and merge id unless
\* a later batch overlaps it; otherwise it starts a merging batch of its own.
deferMergeableOp(lb, state, batchId, mergeId) ==
    LET lb1 == onDeferOp(lb, state)
        keyed == {i \in 1 .. Len(lb1.batches) :
                     /\ lb1.batches[i].merging
                     /\ lb1.batches[i].batchId = batchId
                     /\ lb1.batches[i].mergeId = mergeId}
        t == IF keyed = {} THEN 0 ELSE CHOOSE i \in keyed : \A j \in keyed : j <= i
        got == Received("mergeable", state.opId, state.clippedBounds, state.layer, batchId)
    IN  IF t = 0 \/ \E j \in (t + 1) .. Len(lb1.batches) :
                       intersects(lb1.batches[j].bounds, state.clippedBounds)
        THEN [lb1 EXCEPT !.batches = Append(@, MergingOpBatch(batchId, mergeId, state)),
                         !.received = Append(@, got)]
        ELSE [lb1 EXCEPT !.batches[t].ops = Append(@, state),
                         !.batches[t].bounds = unionWith(@, state.clippedBounds),
                         !.received = Append(@, got)]

deferLayerClear(lb, rect) ==
    [lb EXCEPT !.clearRects = Append(@, rect),
               !.received = Append(@, Received("clear", "None", rect, -1, "None"))]

clear(lb) == [lb EXCEPT !.batches = <<>>]

----------------------------------------------------------------------------
(* CanvasState / Snapshot *)

Snapshot(transform, clipRect, alpha) ==
    [transform |-> transform, clip |-> clipRect, alpha |-> alpha]

initializeSaveStack(clipRect) == <<Snapshot(Identity, clipRect, AlphaOne)>>

save(cs) == Append(cs, Last(cs))
restore(cs) == IF Len(cs) > 1 THEN Front(cs) ELSE cs
restoreToCount(cs, count) ==
    IF Len(cs) > Max(count, 1) THEN SubSeq(cs, 1, Max(count, 1)) ELSE cs
setSnapshot(cs, s) == [cs EXCEPT ![Len(cs)] = s]

translate(s, dx, dy) == [s EXCEPT !.transform = multiply(@, Translate(dx, dy))]
concatMatrix(s, m) == [s EXCEPT !.transform = multiply(@, m)]
scaleAlpha(s, a) == [s EXCEPT !.alpha = (@ * a) \div AlphaOne]
\* clipRect(..., kIntersect_Op): the rect is in local space
clipRect(s, r) == [s EXCEPT !.clip = doIntersect(@, mapRect(s.transform, r))]
quickRejectConservative(s, l, t, r, b) ==
    \/ b <= t
    \/ r <= l
    \/ ~intersects(s.clip, mapRect(s.transform, Rect(l, t, r, b)))

----------------------------------------------------------------------------
(* RenderProperties *)

CLIP_TO_BOUNDS == "CLIP_TO_BOUNDS"
CLIP_TO_CLIP_BOUNDS == "CLIP_TO_CLIP_BOUNDS"

getClippingRectForFlags(p, flags) ==
    IF CLIP_TO_BOUNDS \in flags
    THEN IF CLIP_TO_CLIP_BOUNDS \in flags
         THEN doIntersect(Rect(0, 0, p.width, p.height), p.clipBounds)
         ELSE Rect(0, 0, p.width, p.height)
    ELSE p.clipBounds

NoDL == [ops |-> <<>>, chunks |-> <<>>, children |-> <<>>,
         projectionReceiveIndex |-> -1, isNull |-> TRUE]

----------------------------------------------------------------------------
(* The FrameBuilder members the handlers change, as one record *)

FB == [canvas |-> mCanvasState, layerStack |-> mLayerStack,
       builders |-> mLayerBuilders, cleared |-> cleared]

SetFB(fb) ==
    /\ mCanvasState' = fb.canvas
    /\ mLayerStack' = fb.layerStack
    /\ mLayerBuilders' = fb.builders
    /\ cleared' = fb.cleared

currentSnapshot(fb) == Last(fb.canvas)
currentLayerIndex(fb) == Last(fb.layerStack)
currentLayer(fb) == fb.builders[currentLayerIndex(fb) + 1]

\* currentLayer().deferUnmergeableOp(mAllocator, state, batchId)
deferToCurrentLayer(fb, state, batchId) ==
    [fb EXCEPT !.builders[currentLayerIndex(fb) + 1] =
                   deferUnmergeableOp(@, state, batchId)]

\* deferring whatever the bake gives, without the null check of line 418
tryDeferUnmergeableUnchecked(fb, id, op, strokeOutset, path, batchId) ==
    deferToCurrentLayer(fb,
        BakedOpState(id, op, BakedBounds(currentSnapshot(fb), op, strokeOutset),
                     currentSnapshot(fb), path), batchId)

\* tryBakeOpState + deferUnmergeableOp; an op with empty bounds is rejected
tryDeferUnmergeable(fb, id, op, strokeOutset, path, batchId) ==
    LET bounds == BakedBounds(currentSnapshot(fb), op, strokeOutset)
    IN  IF isEmpty(bounds) THEN fb
        ELSE deferToCurrentLayer(fb,
                 BakedOpState(id, op, bounds, currentSnapshot(fb), path), batchId)

\* the index pushed is that of the last builder there was, not of the new one
saveForLayerPushingLast(fb, layerWidth, layerHeight, tx, ty, repaintRect, beginLayerOp, renderNode) ==
    LET cs == save(fb.canvas)
        snapshot == [Last(cs) EXCEPT !.transform =
                                         Translate(tx, ty),
                                     !.clip = repaintRect]
    IN  [fb EXCEPT !.canvas = setSnapshot(cs, snapshot),
                   !.layerStack = Append(@, Len(fb.builders) - 1),
                   !.builders = Append(@, LayerBuilder(layerWidth, layerHeight,
                                              repaintRect, beginLayerOp, renderNode))]

saveForLayer(fb, layerWidth, layerHeight, tx, ty, repaintRect, beginLayerOp, renderNode) ==
    LET cs == save(fb.canvas)
        snapshot == [Last(cs) EXCEPT !.transform =
                                         Translate(tx, ty),
                                     !.clip = repaintRect]
    IN  [fb EXCEPT !.canvas = setSnapshot(cs, snapshot),
                   !.layerStack = Append(@, Len(fb.builders)),
                   !.builders = Append(@, LayerBuilder(layerWidth, layerHeight,
                                              repaintRect, beginLayerOp, renderNode))]

\* restoreForLayer without mLayerStack.pop_back()
restoreForLayerKeepsLayer(fb) ==
    [fb EXCEPT !.canvas = restore(@)]

restoreForLayer(fb) ==
    [fb EXCEPT !.canvas = restore(@), !.layerStack = Front(@)]

\* float -> uint32_t: exact for a value in range; undefined for a negative
\* one, where the build either saturates to 0 or wraps.
FloatToUInt32(v, conversion) ==
    IF v >= 0 THEN ToUInt32(v)
    ELSE IF conversion = "saturate" THEN 0 ELSE ToUInt32(v)
Conversions == {"saturate", "wrap"}

\* lines 639-648: the layer's bounds clipped to the parent's clip, in layer space
ClippedSaveLayerBounds(fb, op) ==
    LET layerWidth == ToUInt32(getWidth(op.unmappedBounds))
        layerHeight == ToUInt32(getHeight(op.unmappedBounds))
        previous == currentSnapshot(fb)
        contentTransform ==
            multiply(multiply(previous.transform, op.localMatrix),
                     Translate(op.unmappedBounds.left, op.unmappedBounds.top))
        inverseContentTransform == loadInverse(contentTransform)
        b1 == mapRect(contentTransform, Rect(0, 0, layerWidth, layerHeight))
        b2 == doIntersect(b1, previous.clip)
        b3 == mapRect(inverseContentTransform, b2)
    IN  doIntersect(b3, Rect(0, 0, layerWidth, layerHeight))

deferBeginLayerOp(fb, op, conversion) ==
    LET saveLayerBounds == ClippedSaveLayerBounds(fb, op)
        layerWidth == FloatToUInt32(getWidth(saveLayerBounds), conversion)
        layerHeight == FloatToUInt32(getHeight(saveLayerBounds), conversion)
    IN  saveForLayer(fb, layerWidth, layerHeight,
                     0 - saveLayerBounds.left, 0 - saveLayerBounds.top,
                     Rect(0, 0, layerWidth, layerHeight), op, 0)

\* the conversions that give different results for this op
ConversionsOf(fb, op) ==
    IF getWidth(ClippedSaveLayerBounds(fb, op)) < 0
       \/ getHeight(ClippedSaveLayerBounds(fb, op)) < 0
    THEN Conversions ELSE {"saturate"}

LayerOpOf(beginLayerOp) == [beginLayerOp EXCEPT !.opId = "LayerOp"]

\* deferEndLayerOp when currentLayer().beginLayerOp is null: line 665 binds
\* a reference to *nullptr, which is undefined; the build either traps there
\* or faults at the first read through the reference (line 673), after
\* restoreForLayer (line 668) has popped both stacks
NullDerefOutcomes == {"line 665", "line 673"}
deferEndLayerOpOfNull(fb, outcome) ==
    IF outcome = "line 665" THEN fb ELSE restoreForLayer(fb)

\* deferEndLayerOp drawing the layer into itself and clearing the layer it
\* returns to: the layer index is read on the wrong side of restoreForLayer
deferEndLayerOpWrongLayer(fb, id, path) ==
    LET beginLayerOp == currentLayer(fb).beginLayerOp
        fb1 == restoreForLayer(fb)
        parentLayerIndex == Last(fb1.layerStack)
        drawLayerOp == LayerOpOf(beginLayerOp)
        bounds == BakedBounds(currentSnapshot(fb1), drawLayerOp, 0)
    IN  IF ~isEmpty(bounds)
        THEN [deferToCurrentLayer(fb,
                 [BakedOpState(id, drawLayerOp, bounds, currentSnapshot(fb1), path)
                     EXCEPT !.layer = parentLayerIndex],
                 "Bitmap") EXCEPT !.canvas = fb1.canvas, !.layerStack = fb1.layerStack]
        ELSE [fb1 EXCEPT !.builders[parentLayerIndex + 1] = clear(@),
                         !.cleared = @ \cup {parentLayerIndex}]

deferEndLayerOp(fb, id, path) ==
    LET beginLayerOp == currentLayer(fb).beginLayerOp
        finishedLayerIndex == Last(fb.layerStack)
        fb1 == restoreForLayer(fb)
        drawLayerOp == LayerOpOf(beginLayerOp)
        bounds == BakedBounds(currentSnapshot(fb1), drawLayerOp, 0)
    IN  IF ~isEmpty(bounds)
        THEN deferToCurrentLayer(fb1,
                 [BakedOpState(id, drawLayerOp, bounds, currentSnapshot(fb1), path)
                     EXCEPT !.layer = finishedLayerIndex],
                 "Bitmap")
        ELSE [fb1 EXCEPT !.builders[finishedLayerIndex + 1] = clear(@),
                         !.cleared = @ \cup {finishedLayerIndex}]

\* tessBatchId asking for anti-aliasing before the path effect
tessBatchIdAntiAliasFirst(op) ==
    IF op.paint.antiAlias THEN "AlphaVertices"
    ELSE IF op.paint.pathEffect THEN "AlphaMaskTexture" ELSE "Vertices"

\* lines 428-433
tessBatchId(op) ==
    IF op.paint.pathEffect THEN "AlphaMaskTexture"
    ELSE IF op.paint.antiAlias THEN "AlphaVertices" ELSE "Vertices"

----------------------------------------------------------------------------
(* Z-sorted children *)

ZRenderNodeOpPair(z, opIndex) == [key |-> z, value |-> opIndex]

\* a sort that is not stable: insertion before the elements of equal key
RECURSIVE StableInsertBeforeEqual(_, _)
StableInsertBeforeEqual(sorted, e) ==
    IF sorted = <<>> THEN <<e>>
    ELSE IF e.key <= Head(sorted).key THEN <<e>> \o sorted
    ELSE <<Head(sorted)>> \o StableInsertBeforeEqual(Tail(sorted), e)

\* std::stable_sort by key: insertion after every element that is not greater
RECURSIVE StableInsert(_, _)
StableInsert(sorted, e) ==
    IF sorted = <<>> THEN <<e>>
    ELSE IF e.key < Head(sorted).key THEN <<e>> \o sorted
    ELSE <<Head(sorted)>> \o StableInsert(Tail(sorted), e)

RECURSIVE stable_sort(_)
stable_sort(s) ==
    IF s = <<>> THEN <<>> ELSE StableInsert(stable_sort(Front(s)), Last(s))

\* the loop of lines 190-202 over the children i .. endChildIndex - 1;
\* acc = [z: pairs pushed so far, skip: skipInOrderDraw]
RECURSIVE ZChildLoop(_, _, _, _, _)
ZChildLoop(n, dl, chunk, i, acc) ==
    IF i >= chunk.endChildIndex THEN acc
    ELSE LET opIndex == dl.children[i + 1]
             child == dl.ops[opIndex + 1].renderNode
             childZ == renderNodes[child].z
             next ==
                 IF childZ # 0 /\ chunk.reorderChildren
                 THEN [z |-> Append(acc.z, ZRenderNodeOpPair(childZ, opIndex)),
                       skip |-> [acc.skip EXCEPT ![<<n, opIndex>>] = TRUE]]
                 ELSE IF ~renderNodes[child].projectBackwards
                 THEN [acc EXCEPT !.skip[<<n, opIndex>>] = FALSE]
                 ELSE acc
         IN  ZChildLoop(n, dl, chunk, i + 1, next)

\* the z-children are listed but their in-order draw is not switched off
buildZSortedChildListKeepingInOrder(n, dl, chunk, skip) ==
    LET r == ZChildLoop(n, dl, chunk, chunk.beginChildIndex, [z |-> <<>>, skip |-> skip])
    IN  [z |-> stable_sort(r.z), skip |-> skip]

buildZSortedChildList(n, dl, chunk, skip) ==
    LET r == ZChildLoop(n, dl, chunk, chunk.beginChildIndex, [z |-> <<>>, skip |-> skip])
    IN  [r EXCEPT !.z = stable_sort(@)]

\* every child taken for a non-negative one
findNonNegativeIndexFirst(zTranslatedNodes) == 0

findNonNegativeIndex(zTranslatedNodes) ==
    LET nonNeg == {i \in 0 .. Len(zTranslatedNodes) - 1 : zTranslatedNodes[i + 1].key >= 0}
    IN  IF nonNeg = {} THEN Len(zTranslatedNodes)
        ELSE CHOOSE i \in nonNeg : \A j \in nonNeg : i <= j

----------------------------------------------------------------------------
(* Call stack *)

Frame(fn, node) ==
    [fn |-> fn, pc |-> "start", node |-> node, chunk |-> 0, opIndex |-> 0,
     inst |-> 0, zTranslatedNodes |-> <<>>, mode |-> "None", drawIndex |-> 0,
     shadowIndex |-> 0, endIndex |-> 0, lastCasterZ |-> 0, count |-> 0,
     restoreTo |-> 0, i |-> 0, op |-> <<0, 0>>]

top == Last(stack)
Push(st, f) == Append(st, f)
Pop(st) == Front(st)
SetTop(st, f) == [st EXCEPT ![Len(st)] = f]
Running(fn, pc) == stack # <<>> /\ top.fn = fn /\ top.pc = pc

displayListOf(n) == renderNodes[n].displayList
\* the RenderNodeOp <<n, opIndex>> of node n's display list
renderNodeOf(op) == displayListOf(op[1]).ops[op[2] + 1].renderNode

\* One call: ev is "chunk" (a chunk is entered), "op" (the op at opIndex is
\* dispatched), "shadow" (deferShadow), "body" (deferRenderNodeOpImpl of a
\* z-child) or "projected"; f is the frame of the caller, inst the number of
\* the chunk traversal, idx the index in zTranslatedNodes, node the child.
LogEntry(ev, f, idx, opIndex, node) ==
    [ev |-> ev, inst |-> f.inst, parent |-> f.node, chunk |-> f.chunk, mode |-> f.mode,
     idx |-> idx, opIndex |-> opIndex, node |-> node]

----------------------------------------------------------------------------
(* FrameBuilder::FrameBuilder *)

\* for (const sp<RenderNode>& node : nodes), from root k on
NodesLoop(f, k) ==
    IF k < Len(nodes) THEN [f EXCEPT !.pc = "nodes", !.i = k]
    ELSE [f EXCEPT !.pc = "done"]

\* for (int i = layers.entries().size() - 1; i >= 0; i--), from entry i on
LayersLoop(f, i) ==
    IF i >= 0 THEN [f EXCEPT !.pc = "layers", !.i = i] ELSE NodesLoop(f, 0)

\* the entries taken from the front of the queue while i counts down
LayerEntryFrontFirst(i) == layers[Len(layers) - i]

\* layers.entries()[i]
LayerEntry(i) == layers[i + 1]

Fbo0 == LayerBuilder(ViewportWidth, ViewportHeight, clip, NoOp, 0)

\* the vector sized, not reserved, for the layer updates and for fbo0
InitialLayerBuildersSized == <<Fbo0, Fbo0>>

\* lines 39, 43-44: mLayerBuilders after push_back(fbo0)
InitialLayerBuilders == <<Fbo0>>

\* lines 39-48
Construct ==
    /\ Running("FrameBuilder", "start")
    /\ mLayerBuilders' = InitialLayerBuilders
    /\ mLayerStack' = <<0>>
    /\ mCanvasState' = initializeSaveStack(clip)
    /\ stack' = <<LayersLoop(top, Len(layers) - 1)>>
    /\ UNCHANGED <<input, outside, skipInOrderDraw, log, nextId, cleared>>

\* lines 53-66
ConstructLayer ==
    /\ Running("FrameBuilder", "layers")
    /\ LET entry == LayerEntry(top.i)
           layerNode == renderNodes[entry.renderNode]
           caller == SetTop(stack, [top EXCEPT !.pc = "layerRestore"])
       IN  /\ SetFB(saveForLayer(FB, layerNode.width, layerNode.height, 0, 0,
                                 entry.damage, NoOp, entry.renderNode))
           /\ stack' = IF ~layerNode.displayList.isNull
                       THEN Push(caller, Frame("deferNodeOps", entry.renderNode))
                       ELSE caller
    /\ UNCHANGED <<input, outside, skipInOrderDraw, log, nextId>>

\* line 67
ConstructLayerRestore ==
    /\ Running("FrameBuilder", "layerRestore")
    /\ SetFB(restoreForLayer(FB))
    /\ stack' = <<LayersLoop(top, top.i - 1)>>
    /\ UNCHANGED <<input, outside, skipInOrderDraw, log, nextId>>

\* lines 71-76
ConstructNode ==
    /\ Running("FrameBuilder", "nodes")
    /\ LET node == nodes[top.i + 1]
       IN  IF renderNodes[node].nothingToDraw
           THEN /\ stack' = <<NodesLoop(top, top.i + 1)>>
                /\ UNCHANGED mCanvasState
           ELSE /\ mCanvasState' = save(mCanvasState)
                /\ stack' = Push(SetTop(stack, [top EXCEPT !.pc = "nodeRestore",
                                                           !.count = Len(mCanvasState)]),
                                 Frame("deferNodePropsAndOps", node))
    /\ UNCHANGED <<input, outside, skipInOrderDraw, mLayerBuilders, mLayerStack, log, nextId,
                   cleared>>

\* line 77
ConstructNodeRestore ==
    /\ Running("FrameBuilder", "nodeRestore")
    /\ mCanvasState' = restoreToCount(mCanvasState, top.count)
    /\ stack' = <<NodesLoop(top, top.i + 1)>>
    /\ UNCHANGED <<input, outside, skipInOrderDraw, mLayerBuilders, mLayerStack, log, nextId,
                   cleared>>

----------------------------------------------------------------------------
(* FrameBuilder::deferNodePropsAndOps *)

\* the rejection of lines 88-91 without its test of the alpha
NodeRejectedButForAlpha(p) ==
    p.outlineClipEmpty \/ p.scaleX = 0 \/ p.scaleY = 0

\* lines 88-91
NodeRejected(p) ==
    p.alpha <= 0 \/ p.outlineClipEmpty \/ p.scaleX = 0 \/ p.scaleY = 0

\* the properties applied with the alpha scaled into the snapshot for every
\* node, the ones drawn through a temporary save-layer included
ApplyNodePropertiesAlwaysScaling(snapshot, p) ==
    LET s1 == IF p.left # 0 \/ p.top # 0 THEN translate(snapshot, p.left, p.top)
              ELSE snapshot
        s2 == IF p.translationX # 0 \/ p.translationY # 0
              THEN translate(s1, p.translationX, p.translationY) ELSE s1
        flags1 == IF p.alpha < AlphaOne /\ p.isLayer
                  THEN p.clipFlags \ {CLIP_TO_BOUNDS} ELSE p.clipFlags
        layer == p.alpha < AlphaOne /\ ~(p.isLayer \/ ~p.hasOverlappingRendering)
        s3 == IF p.alpha < AlphaOne THEN scaleAlpha(s2, p.alpha) ELSE s2
        saveLayerBounds ==
            IF layer
            THEN IF flags1 # {} THEN getClippingRectForFlags(p, flags1)
                 ELSE Rect(0, 0, p.width, p.height)
            ELSE EmptyRect
        flags2 == IF layer THEN {} ELSE flags1
        s4 == IF flags2 # {} THEN clipRect(s3, getClippingRectForFlags(p, flags2))
              ELSE s3
    IN  [snapshot |-> s4, saveLayerBounds |-> saveLayerBounds]

\* lines 95-144: the snapshot after the node's properties, and saveLayerBounds
ApplyNodeProperties(snapshot, p) ==
    LET s1 == IF p.left # 0 \/ p.top # 0 THEN translate(snapshot, p.left, p.top)
              ELSE snapshot
        s2 == IF p.translationX # 0 \/ p.translationY # 0
              THEN translate(s1, p.translationX, p.translationY) ELSE s1
        flags1 == IF p.alpha < AlphaOne /\ p.isLayer
                  THEN p.clipFlags \ {CLIP_TO_BOUNDS} ELSE p.clipFlags
        scale == p.alpha < AlphaOne /\ (p.isLayer \/ ~p.hasOverlappingRendering)
        layer == p.alpha < AlphaOne /\ ~scale
        s3 == IF scale THEN scaleAlpha(s2, p.alpha) ELSE s2
        saveLayerBounds ==
            IF layer
            THEN IF flags1 # {} THEN getClippingRectForFlags(p, flags1)
                 ELSE Rect(0, 0, p.width, p.height)
            ELSE EmptyRect
        flags2 == IF layer THEN {} ELSE flags1
        s4 == IF flags2 # {} THEN clipRect(s3, getClippingRectForFlags(p, flags2))
              ELSE s3
    IN  [snapshot |-> s4, saveLayerBounds |-> saveLayerBounds]

\* LayerOp(RenderNode& node)
NodeLayerOp(p) == Op("LayerOp", Rect(0, 0, p.width, p.height), NoPaint, 0)

\* saveLayerPaint.setAlpha(properties.getAlpha()): a float below 1 as U8CPU
SaveLayerPaint(p) == [NoPaint EXCEPT !.alpha = p.alpha \div AlphaOne]

\* a node that holds a layer is drawn like any other node
DeferNodePropsAndOpsIgnoringLayer ==
    /\ Running("deferNodePropsAndOps", "start")
    /\ LET node == top.node
           p == renderNodes[node]
           r == ApplyNodeProperties(currentSnapshot(FB), p)
           fb1 == [FB EXCEPT !.canvas = setSnapshot(@, r.snapshot)]
           path == PathWith(stack, node)
           beginOp == BeginLayerOp(r.saveLayerBounds, SaveLayerPaint(p))
       IN  IF NodeRejected(p)
           THEN /\ stack' = Pop(stack)
                /\ UNCHANGED <<mCanvasState, mLayerStack, mLayerBuilders, cleared>>
           ELSE IF quickRejectConservative(r.snapshot, 0, 0, p.width, p.height)
           THEN /\ SetFB(fb1)
                /\ stack' = Pop(stack)
           ELSE IF ~isEmpty(r.saveLayerBounds)
           THEN \E conversion \in ConversionsOf(fb1, beginOp) :
                /\ SetFB(deferBeginLayerOp(fb1, beginOp, conversion))
                /\ stack' = Push(SetTop(stack, [top EXCEPT !.pc = "endLayer"]),
                                 Frame("deferNodeOps", node))
           ELSE /\ SetFB(fb1)
                /\ stack' = SetTop(stack, Frame("deferNodeOps", node))
    /\ nextId' = nextId + 2
    /\ UNCHANGED <<input, outside, skipInOrderDraw, log>>

\* lines 85-180, up to the call of deferNodeOps
DeferNodePropsAndOps ==
    /\ Running("deferNodePropsAndOps", "start")
    /\ LET node == top.node
           p == renderNodes[node]
           r == ApplyNodeProperties(currentSnapshot(FB), p)
           fb1 == [FB EXCEPT !.canvas = setSnapshot(@, r.snapshot)]
           path == PathWith(stack, node)
           beginOp == BeginLayerOp(r.saveLayerBounds, SaveLayerPaint(p))
       IN  IF NodeRejected(p)
           THEN /\ stack' = Pop(stack)
                /\ UNCHANGED <<mCanvasState, mLayerStack, mLayerBuilders, cleared>>
           ELSE IF quickRejectConservative(r.snapshot, 0, 0, p.width, p.height)
           THEN /\ SetFB(fb1)
                /\ stack' = Pop(stack)
           ELSE IF p.hasLayer
           THEN /\ SetFB(tryDeferUnmergeable(fb1, nextId + 1, NodeLayerOp(p), 0,
                                             path, "Bitmap"))
                /\ stack' = Pop(stack)
           ELSE IF ~isEmpty(r.saveLayerBounds)
           THEN \E conversion \in ConversionsOf(fb1, beginOp) :
                /\ SetFB(deferBeginLayerOp(fb1, beginOp, conversion))
                /\ stack' = Push(SetTop(stack, [top EXCEPT !.pc = "endLayer"]),
                                 Frame("deferNodeOps", node))
           ELSE /\ SetFB(fb1)
                /\ stack' = SetTop(stack, Frame("deferNodeOps", node))
    /\ nextId' = nextId + 2
    /\ UNCHANGED <<input, outside, skipInOrderDraw, log>>

\* line 176
DeferNodePropsAndOpsEndLayer ==
    /\ Running("deferNodePropsAndOps", "endLayer")
    /\ IF currentLayer(FB).beginLayerOp = NoOp
       THEN \E outcome \in NullDerefOutcomes :
                /\ SetFB(deferEndLayerOpOfNull(FB, outcome))
                /\ stack' = <<Frame("crash", 0)>>
       ELSE /\ SetFB(deferEndLayerOp(FB, nextId + 1, PathWith(stack, top.node)))
            /\ stack' = Pop(stack)
    /\ nextId' = nextId + 2
    /\ UNCHANGED <<input, outside, skipInOrderDraw, log>>

----------------------------------------------------------------------------
(* FrameBuilder::deferNodeOps *)

\* lines 369-373 (and the return after the last chunk)
DeferNodeOpsChunk ==
    /\ Running("deferNodeOps", "start")
    /\ LET dl == displayListOf(top.node)
       IN  IF top.chunk >= Len(dl.chunks)
           THEN /\ stack' = Pop(stack)
                /\ UNCHANGED <<skipInOrderDraw, nextId, log>>
           ELSE LET chunk == dl.chunks[top.chunk + 1]
                    r == buildZSortedChildList(top.node, dl, chunk, skipInOrderDraw)
                    caller == [top EXCEPT !.pc = "ops", !.opIndex = chunk.beginOpIndex,
                                          !.zTranslatedNodes = r.z, !.inst = nextId]
                    callee == [Frame("defer3dChildren", top.node) EXCEPT
                                  !.mode = "Negative", !.zTranslatedNodes = r.z,
                                  !.inst = nextId, !.chunk = top.chunk]
                IN  /\ skipInOrderDraw' = r.skip
                    /\ stack' = Push(SetTop(stack, caller), callee)
                    /\ nextId' = nextId + 1
                    /\ log' = Append(log, LogEntry("chunk", caller, 0, 0, top.node))
    /\ UNCHANGED <<input, outside, mLayerBuilders, mLayerStack, mCanvasState, cleared>>

currentChunk == displayListOf(top.node).chunks[top.chunk + 1]
currentOp == displayListOf(top.node).ops[top.opIndex + 1]

\* the op loop of lines 374-383 is at an op of the given type
AtOp(opId) ==
    /\ Running("deferNodeOps", "ops")
    /\ top.opIndex < currentChunk.endOpIndex
    /\ currentOp.opId = opId

\* the projected children deferred after every op of a receiving list
AfterOpProjectingEachTime(st, f) ==
    LET renderNode == renderNodes[f.node]
        dl == renderNode.displayList
        next == SetTop(st, [f EXCEPT !.pc = "ops", !.opIndex = @ + 1])
    IN  IF /\ renderNode.mProjectedNodes # <<>>
           /\ dl.projectionReceiveIndex >= 0
        THEN Push(next, [Frame("deferProjectedChildren", f.node) EXCEPT
                            !.inst = f.inst, !.chunk = f.chunk])
        ELSE next

\* lines 378-382 and opIndex++; st has the deferNodeOps frame f on top
AfterOp(st, f) ==
    LET renderNode == renderNodes[f.node]
        dl == renderNode.displayList
        next == SetTop(st, [f EXCEPT !.pc = "ops", !.opIndex = @ + 1])
    IN  IF /\ renderNode.mProjectedNodes # <<>>
           /\ dl.projectionReceiveIndex >= 0
           /\ f.opIndex = dl.projectionReceiveIndex
        THEN Push(next, [Frame("deferProjectedChildren", f.node) EXCEPT
                            !.inst = f.inst, !.chunk = f.chunk])
        ELSE next

LogOp == Append(log, LogEntry("op", top, top.opIndex, top.opIndex, top.node))

\* line 384
DeferNodeOpsPositive ==
    /\ Running("deferNodeOps", "ops")
    /\ top.opIndex >= currentChunk.endOpIndex
    /\ stack' = Push(SetTop(stack, [top EXCEPT !.pc = "start", !.chunk = @ + 1]),
                     [Frame("defer3dChildren", top.node) EXCEPT
                         !.mode = "Positive", !.zTranslatedNodes = top.zTranslatedNodes,
                         !.inst = top.inst, !.chunk = top.chunk])
    /\ UNCHANGED <<input, outside, skipInOrderDraw, mLayerBuilders, mLayerStack, mCanvasState,
                   log, nextId, cleared>>

----------------------------------------------------------------------------
(* FrameBuilder::defer3dChildren, deferShadow *)

\* the Negative phase with the shadows of its own children
ChildrenRangeWithNegativeShadows(mode, zTranslatedNodes) ==
    LET nonNegativeIndex == findNonNegativeIndex(zTranslatedNodes)
    IN  IF mode = "Negative"
        THEN [drawIndex |-> 0, endIndex |-> nonNegativeIndex, shadowIndex |-> 0]
        ELSE [drawIndex |-> nonNegativeIndex, endIndex |-> Len(zTranslatedNodes),
              shadowIndex |-> nonNegativeIndex]

\* lines 233-243
ChildrenRange(mode, zTranslatedNodes) ==
    LET nonNegativeIndex == findNonNegativeIndex(zTranslatedNodes)
    IN  IF mode = "Negative"
        THEN [drawIndex |-> 0, endIndex |-> nonNegativeIndex,
              shadowIndex |-> nonNegativeIndex]
        ELSE [drawIndex |-> nonNegativeIndex, endIndex |-> Len(zTranslatedNodes),
              shadowIndex |-> nonNegativeIndex]

\* lines 218-245
Defer3dChildren ==
    /\ Running("defer3dChildren", "start")
    /\ LET z == top.zTranslatedNodes
           size == Len(z)
           range == ChildrenRange(top.mode, z)
       IN  IF \/ size = 0
              \/ (top.mode = "Negative" /\ z[1].key > 0)
              \/ (top.mode = "Positive" /\ z[size].key < 0)
           THEN stack' = Pop(stack)
           ELSE stack' = SetTop(stack, [top EXCEPT !.pc = "loop",
                                                   !.drawIndex = range.drawIndex,
                                                   !.endIndex = range.endIndex,
                                                   !.shadowIndex = range.shadowIndex,
                                                   !.lastCasterZ = 0])
    /\ UNCHANGED <<input, outside, skipInOrderDraw, mLayerBuilders, mLayerStack, mCanvasState,
                   log, nextId, cleared>>

\* a shadow deferred only right before the body of its own caster
ShadowIsNextForOwnBody(f) ==
    /\ f.shadowIndex < f.endIndex
    /\ f.shadowIndex = f.drawIndex

\* a shadow deferred only for a caster close to the last one
ShadowIsNextSimilarOnly(f) ==
    /\ f.shadowIndex < f.endIndex
    /\ f.zTranslatedNodes[f.shadowIndex + 1].key - f.lastCasterZ < CasterZThreshold

\* line 252, evaluated when shadowIndex < endIndex
ShadowIsNext(f) ==
    /\ f.shadowIndex < f.endIndex
    /\ \/ f.shadowIndex = f.drawIndex
       \/ f.zTranslatedNodes[f.shadowIndex + 1].key - f.lastCasterZ < CasterZThreshold

\* lines 271-275
NoShadow(p) ==
    \/ p.alpha <= 0
    \/ p.outlineAlpha <= 0
    \/ ~p.outlinePath
    \/ p.scaleX = 0
    \/ p.scaleY = 0

ShadowOp(caster) == Op("ShadowOp", EmptyRect, NoPaint, caster)

\* lines 267-321; the shadow's bounds are those of the clip
deferShadow(fb, id, caster, path) ==
    LET snapshot == currentSnapshot(fb)
    IN  IF NoShadow(renderNodes[caster]) \/ isEmpty(snapshot.clip) THEN fb
        ELSE deferToCurrentLayer(fb,
                 BakedOpState(id, ShadowOp(caster), snapshot.clip, snapshot, path),
                 "Shadow")

\* lines 246-258
Defer3dShadow ==
    /\ Running("defer3dChildren", "loop")
    /\ ShadowIsNext(top)
    /\ LET pair == top.zTranslatedNodes[top.shadowIndex + 1]
           caster == renderNodeOf(<<top.node, pair.value>>)
       IN  /\ SetFB(deferShadow(FB, nextId + 1, caster, PathWith(stack, caster)))
           /\ log' = Append(log, LogEntry("shadow", top, top.shadowIndex,
                                          pair.value, caster))
           /\ stack' = SetTop(stack, [top EXCEPT !.lastCasterZ = pair.key,
                                                 !.shadowIndex = @ + 1])
    /\ nextId' = nextId + 2
    /\ UNCHANGED <<input, outside, skipInOrderDraw>>

\* lines 261-263
Defer3dBody ==
    /\ Running("defer3dChildren", "loop")
    /\ top.shadowIndex < top.endIndex \/ top.drawIndex < top.endIndex
    /\ ~ShadowIsNext(top)
    /\ LET pair == top.zTranslatedNodes[top.drawIndex + 1]
           childOp == <<top.node, pair.value>>
       IN  /\ log' = Append(log, LogEntry("body", top, top.drawIndex,
                                          pair.value, renderNodeOf(childOp)))
           /\ stack' = Push(SetTop(stack, [top EXCEPT !.drawIndex = @ + 1]),
                            [Frame("deferRenderNodeOpImpl", top.node) EXCEPT
                                !.op = childOp])
    /\ UNCHANGED <<input, outside, skipInOrderDraw, mLayerBuilders, mLayerStack, mCanvasState,
                   nextId, cleared>>

\* line 246, loop condition false
Defer3dChildrenReturn ==
    /\ Running("defer3dChildren", "loop")
    /\ ~(top.shadowIndex < top.endIndex \/ top.drawIndex < top.endIndex)
    /\ stack' = Pop(stack)
    /\ UNCHANGED <<input, outside, skipInOrderDraw, mLayerBuilders, mLayerStack, mCanvasState,
                   log, nextId, cleared>>

----------------------------------------------------------------------------
(* FrameBuilder::deferRenderNodeOpImpl, deferRenderNodeOp *)

\* lines 388-398
DeferRenderNodeOpImpl ==
    /\ Running("deferRenderNodeOpImpl", "start")
    /\ LET child == renderNodeOf(top.op)
           op == displayListOf(top.op[1]).ops[top.op[2] + 1]
       IN  IF renderNodes[child].nothingToDraw
           THEN /\ stack' = Pop(stack)
                /\ UNCHANGED mCanvasState
           ELSE /\ mCanvasState' =
                       LET cs == save(mCanvasState)
                       IN  setSnapshot(cs, concatMatrix(Last(cs), op.localMatrix))
                /\ stack' = Push(SetTop(stack, [top EXCEPT !.pc = "restore",
                                                           !.count = Len(mCanvasState)]),
                                 Frame("deferNodePropsAndOps", child))
    /\ UNCHANGED <<input, outside, skipInOrderDraw, mLayerBuilders, mLayerStack, log, nextId,
                   cleared>>

\* returning without restoreToCount(count)
DeferRenderNodeOpImplRestoreKeepingSave ==
    /\ Running("deferRenderNodeOpImpl", "restore")
    /\ stack' = Pop(stack)
    /\ UNCHANGED <<input, outside, skipInOrderDraw, mLayerBuilders, mLayerStack, mCanvasState,
                   log, nextId, cleared>>

\* line 400
DeferRenderNodeOpImplRestore ==
    /\ Running("deferRenderNodeOpImpl", "restore")
    /\ mCanvasState' = restoreToCount(mCanvasState, top.count)
    /\ stack' = Pop(stack)
    /\ UNCHANGED <<input, outside, skipInOrderDraw, mLayerBuilders, mLayerStack, log, nextId,
                   cleared>>

\* lines 403-407
DeferRenderNodeOp ==
    /\ AtOp("RenderNodeOp")
    /\ log' = LogOp
    /\ stack' = IF ~skipInOrderDraw[<<top.node, top.opIndex>>]
                THEN Push(SetTop(stack, [top EXCEPT !.pc = "afterChild"]),
                          [Frame("deferRenderNodeOpImpl", top.node) EXCEPT
                              !.op = <<top.node, top.opIndex>>])
                ELSE AfterOp(stack, top)
    /\ UNCHANGED <<input, outside, skipInOrderDraw, mLayerBuilders, mLayerStack, mCanvasState,
                   nextId, cleared>>

\* lines 378-382 after a RenderNodeOp that was drawn in order
DeferNodeOpsAfterChild ==
    /\ Running("deferNodeOps", "afterChild")
    /\ stack' = AfterOp(stack, top)
    /\ UNCHANGED <<input, outside, skipInOrderDraw, mLayerBuilders, mLayerStack, mCanvasState,
                   log, nextId, cleared>>

----------------------------------------------------------------------------
(* Per-op handlers *)

\* lines 413-420, 533-535
DeferRectOp ==
    /\ AtOp("RectOp")
    /\ SetFB(tryDeferUnmergeable(FB, nextId + 1, currentOp, currentOp.paint.strokeWidth,
                                 Path(stack), tessBatchId(currentOp)))
    /\ log' = LogOp
    /\ stack' = AfterOp(stack, top)
    /\ nextId' = nextId + 2
    /\ UNCHANGED <<input, outside, skipInOrderDraw>>

Crashed == <<Frame("crash", 0)>>
Aborted == <<Frame("abort", 0)>>

\* hasMergeableClip, lines 439-442, as written: a clip state that is there
\* is mergeable whatever its mode; with none, the right operand reads the
\* mode through the null pointer, which is undefined: the read faults, or
\* the build has folded the test away
hasMergeableClip(state) ==
    IF state.op.bitmap.clipState # "null" THEN {"true"} ELSE {"fault", "true"}

\* lines 444-462
DeferBitmapOp ==
    /\ AtOp("BitmapOp")
    /\ LET bounds == BakedBounds(currentSnapshot(FB), currentOp, 0)
           bakedState == BakedOpState(nextId + 1, currentOp, bounds,
                                      currentSnapshot(FB), Path(stack))
           k == currentLayerIndex(FB) + 1
       IN  IF isEmpty(bounds)
           THEN /\ stack' = AfterOp(stack, top)
                /\ UNCHANGED <<mCanvasState, mLayerStack, mLayerBuilders, cleared>>
           ELSE IF /\ currentOp.bitmap.transform \in {"Translate", "Simple"}
                   /\ currentOp.bitmap.xfermode = "SrcOver"
                   /\ ~currentOp.bitmap.alpha8
           THEN \E outcome \in hasMergeableClip(bakedState) :
                    IF outcome = "fault"
                    THEN /\ stack' = Crashed
                         /\ UNCHANGED <<mCanvasState, mLayerStack, mLayerBuilders, cleared>>
                    ELSE /\ stack' = AfterOp(stack, top)
                         /\ SetFB([FB EXCEPT !.builders[k] =
                                       IF outcome = "true"
                                       THEN deferMergeableOp(@, bakedState, "Bitmap",
                                                currentOp.bitmap.generationId)
                                       ELSE deferUnmergeableOp(@, bakedState, "Bitmap")])
           ELSE /\ stack' = AfterOp(stack, top)
                /\ SetFB(deferToCurrentLayer(FB, bakedState, "Bitmap"))
    /\ log' = LogOp
    /\ nextId' = nextId + 2
    /\ UNCHANGED <<input, outside, skipInOrderDraw>>

\* lines 506-522 and 563-576: an op that is merged when its transform is a
\* pure translation, its xfermode src-over and its clip mergeable
DeferTranslatedOp(opId, mergedBatchId, mergeId, otherBatchId) ==
    /\ AtOp(opId)
    /\ LET bounds == BakedBounds(currentSnapshot(FB), currentOp, 0)
           bakedState == BakedOpState(nextId + 1, currentOp, bounds,
                                      currentSnapshot(FB), Path(stack))
           k == currentLayerIndex(FB) + 1
       IN  IF isEmpty(bounds)
           THEN /\ stack' = AfterOp(stack, top)
                /\ UNCHANGED <<mCanvasState, mLayerStack, mLayerBuilders, cleared>>
           ELSE IF /\ currentOp.bitmap.transform = "Translate"
                   /\ currentOp.bitmap.xfermode = "SrcOver"
           THEN \E outcome \in hasMergeableClip(bakedState) :
                    IF outcome = "fault"
                    THEN /\ stack' = Crashed
                         /\ UNCHANGED <<mCanvasState, mLayerStack, mLayerBuilders, cleared>>
                    ELSE /\ stack' = AfterOp(stack, top)
                         /\ SetFB([FB EXCEPT !.builders[k] =
                                       deferMergeableOp(@, bakedState, mergedBatchId, mergeId)])
           ELSE /\ stack' = AfterOp(stack, top)
                /\ SetFB(deferToCurrentLayer(FB, bakedState, otherBatchId))
    /\ log' = LogOp
    /\ nextId' = nextId + 2
    /\ UNCHANGED <<input, outside, skipInOrderDraw>>

\* lines 506-522
DeferPatchOp ==
    DeferTranslatedOp("PatchOp", "MergedPatch", currentOp.bitmap.generationId, "Bitmap")

\* lines 556-559
textBatchId(paint) == IF paint.color = SK_ColorBLACK THEN "Text" ELSE "ColorText"

\* lines 563-576
DeferTextOp ==
    DeferTranslatedOp("TextOp", textBatchId(currentOp.paint), currentOp.paint.color,
                      textBatchId(currentOp.paint))

\* lines 413-420: the handler of a strokeable op of the given type
DeferStrokeableOp(opId, batchId) ==
    /\ AtOp(opId)
    /\ SetFB(tryDeferUnmergeable(FB, nextId + 1, currentOp, currentOp.paint.strokeWidth,
                                 Path(stack), batchId))
    /\ log' = LogOp
    /\ stack' = AfterOp(stack, top)
    /\ nextId' = nextId + 2
    /\ UNCHANGED <<input, outside, skipInOrderDraw>>

\* lines 435-437
DeferArcOp == DeferStrokeableOp("ArcOp", tessBatchId(currentOp))
\* lines 502-504
DeferOvalOp == DeferStrokeableOp("OvalOp", tessBatchId(currentOp))
\* lines 524-526
DeferPathOp == DeferStrokeableOp("PathOp", "Bitmap")
\* lines 537-539
DeferRoundRectOp == DeferStrokeableOp("RoundRectOp", tessBatchId(currentOp))

\* lines 619-662
DeferBeginLayerOp ==
    /\ AtOp("BeginLayerOp")
    /\ \E conversion \in ConversionsOf(FB, currentOp) :
           SetFB(deferBeginLayerOp(FB, currentOp, conversion))
    /\ log' = LogOp
    /\ stack' = AfterOp(stack, top)
    /\ UNCHANGED <<input, outside, skipInOrderDraw, nextId>>


\* deferEndLayerOp without the clear() of line 687: a layer that will not
\* be drawn keeps its batches
DeferEndLayerOpKeepingBatches ==
    /\ AtOp("EndLayerOp")
    /\ LET fb == deferEndLayerOp(FB, nextId + 1, Path(stack))
       IN  SetFB([fb EXCEPT !.builders =
                     [k \in 1 .. Len(@) |->
                         [@[k] EXCEPT !.batches =
                             IF @ = <<>> THEN mLayerBuilders[k].batches ELSE @]]])
    /\ stack' = AfterOp(stack, top)
    /\ log' = LogOp
    /\ nextId' = nextId + 2
    /\ UNCHANGED <<input, outside, skipInOrderDraw>>

\* lines 664-690; line 665 dereferences currentLayer().beginLayerOp
DeferEndLayerOp ==
    /\ AtOp("EndLayerOp")
    /\ IF currentLayer(FB).beginLayerOp = NoOp
       THEN \E outcome \in NullDerefOutcomes :
                /\ SetFB(deferEndLayerOpOfNull(FB, outcome))
                /\ stack' = Crashed
       ELSE /\ SetFB(deferEndLayerOp(FB, nextId + 1, Path(stack)))
            /\ stack' = AfterOp(stack, top)
    /\ log' = LogOp
    /\ nextId' = nextId + 2
    /\ UNCHANGED <<input, outside, skipInOrderDraw>>

\* BakedOpState::directConstruct
directConstruct(id, opId, op, dstRect, layerHandle, path) ==
    [id |-> id, opId |-> opId, op |-> op, clippedBounds |-> dstRect,
     transform |-> Identity, alpha |-> AlphaOne, path |-> path, layer |-> layerHandle]

deferBeginUnclippedLayerOp(fb, id, op, path) ==
    LET snapshot == currentSnapshot(fb)
        boundsTransform == multiply(snapshot.transform, op.localMatrix)
        dstRect == doIntersect(mapRect(boundsTransform, op.unmappedBounds), snapshot.clip)
        layerHandle == id
        copyTo == directConstruct(id + 1, "CopyToLayerOp", op, dstRect, layerHandle, path)
        copyFrom == directConstruct(id + 3, "CopyFromLayerOp", op, dstRect, layerHandle, path)
        fb1 == deferToCurrentLayer(fb, copyTo, "CopyToLayer")
        k == currentLayerIndex(fb) + 1
    IN  [fb1 EXCEPT !.builders[k] =
            [deferLayerClear(@, dstRect) EXCEPT
                !.activeUnclippedSaveLayers = Append(@, copyFrom)]]

\* lines 692-725
DeferBeginUnclippedLayerOp ==
    /\ AtOp("BeginUnclippedLayerOp")
    /\ SetFB(deferBeginUnclippedLayerOp(FB, nextId, currentOp, Path(stack)))
    /\ log' = LogOp
    /\ stack' = AfterOp(stack, top)
    /\ nextId' = nextId + 4
    /\ UNCHANGED <<input, outside, skipInOrderDraw>>

\* the copy-from state taken from the bottom of the stack
deferEndUnclippedLayerOpOldest(fb, id) ==
    LET copyFromLayerOp == Head(currentLayer(fb).activeUnclippedSaveLayers)
        fb1 == deferToCurrentLayer(fb, [copyFromLayerOp EXCEPT !.id = id], "CopyFromLayer")
    IN  [fb1 EXCEPT !.builders[currentLayerIndex(fb) + 1].activeUnclippedSaveLayers =
                        Tail(@)]

deferEndUnclippedLayerOp(fb, id) ==
    LET copyFromLayerOp == Last(currentLayer(fb).activeUnclippedSaveLayers)
        fb1 == deferToCurrentLayer(fb, [copyFromLayerOp EXCEPT !.id = id], "CopyFromLayer")
    IN  [fb1 EXCEPT !.builders[currentLayerIndex(fb) + 1].activeUnclippedSaveLayers =
                        Front(@)]

\* deferEndUnclippedLayerOp without the check of line 728: an end without a
\* begin is passed over
DeferEndUnclippedLayerOpUnchecked ==
    /\ AtOp("EndUnclippedLayerOp")
    /\ IF currentLayer(FB).activeUnclippedSaveLayers = <<>>
       THEN UNCHANGED <<mCanvasState, mLayerStack, mLayerBuilders, cleared>>
       ELSE SetFB(deferEndUnclippedLayerOp(FB, nextId + 1))
    /\ stack' = AfterOp(stack, top)
    /\ log' = LogOp
    /\ nextId' = nextId + 2
    /\ UNCHANGED <<input, outside, skipInOrderDraw>>


\* lines 727-733
DeferEndUnclippedLayerOp ==
    /\ AtOp("EndUnclippedLayerOp")
    /\ IF currentLayer(FB).activeUnclippedSaveLayers = <<>>
       THEN /\ stack' = Aborted
            /\ UNCHANGED <<mCanvasState, mLayerStack, mLayerBuilders, cleared>>
       ELSE /\ SetFB(deferEndUnclippedLayerOp(FB, nextId + 1))
            /\ stack' = AfterOp(stack, top)
    /\ log' = LogOp
    /\ nextId' = nextId + 2
    /\ UNCHANGED <<input, outside, skipInOrderDraw>>

----------------------------------------------------------------------------
(* FrameBuilder::deferProjectedChildren *)

\* lines 323-340
DeferProjectedChildren ==
    /\ Running("deferProjectedChildren", "start")
    /\ LET dl == displayListOf(top.node)
           backgroundOp == dl.ops[dl.projectionReceiveIndex + 1]
           backgroundProps == renderNodes[backgroundOp.renderNode]
           cs == save(mCanvasState)
       IN  /\ mCanvasState' =
                  setSnapshot(cs, translate(Last(cs), backgroundProps.translationX,
                                            backgroundProps.translationY))
           /\ stack' = SetTop(stack, [top EXCEPT !.pc = "loop", !.i = 0,
                                                 !.count = Len(mCanvasState)])
    /\ UNCHANGED <<input, outside, skipInOrderDraw, mLayerBuilders, mLayerStack, log, nextId,
                   cleared>>

\* lines 343-348
DeferProjectedChild ==
    /\ Running("deferProjectedChildren", "loop")
    /\ top.i < Len(renderNodes[top.node].mProjectedNodes)
    /\ LET childOp == renderNodes[top.node].mProjectedNodes[top.i + 1]
           cs == save(mCanvasState)
       IN  /\ mCanvasState' =
                  setSnapshot(cs, concatMatrix(Last(cs),
                                               childOp.transformFromCompositingAncestor))
           /\ stack' = Push(SetTop(stack, [top EXCEPT !.pc = "restore",
                                                      !.restoreTo = Len(mCanvasState)]),
                            [Frame("deferRenderNodeOpImpl", top.node) EXCEPT
                                !.op = childOp.op])
           /\ log' = Append(log, LogEntry("projected", top, top.i, childOp.op[2],
                                          renderNodeOf(childOp.op)))
    /\ UNCHANGED <<input, outside, skipInOrderDraw, mLayerBuilders, mLayerStack, nextId, cleared>>

\* line 349
DeferProjectedChildRestore ==
    /\ Running("deferProjectedChildren", "restore")
    /\ mCanvasState' = restoreToCount(mCanvasState, top.restoreTo)
    /\ stack' = SetTop(stack, [top EXCEPT !.pc = "loop", !.i = @ + 1])
    /\ UNCHANGED <<input, outside, skipInOrderDraw, mLayerBuilders, mLayerStack, log, nextId,
                   cleared>>

\* line 352
DeferProjectedChildrenReturn ==
    /\ Running("deferProjectedChildren", "loop")
    /\ top.i >= Len(renderNodes[top.node].mProjectedNodes)
    /\ mCanvasState' = restoreToCount(mCanvasState, top.count)
    /\ stack' = Pop(stack)
    /\ UNCHANGED <<input, outside, skipInOrderDraw, mLayerBuilders, mLayerStack, log, nextId,
                   cleared>>

----------------------------------------------------------------------------
(* Inputs: RenderNodes, display lists and scenes *)

RenderNode ==
    [alpha |-> AlphaOne, z |-> 0, left |-> 0, top |-> 0,
     translationX |-> 0, translationY |-> 0, width |-> 10, height |-> 10,
     scaleX |-> 1, scaleY |-> 1, outlineClipEmpty |-> FALSE, outlinePath |-> TRUE,
     outlineAlpha |-> AlphaOne, isLayer |-> FALSE, hasLayer |-> FALSE,
     hasOverlappingRendering |-> TRUE, clipFlags |-> {}, clipBounds |-> EmptyRect,
     projectBackwards |-> FALSE, nothingToDraw |-> TRUE, displayList |-> NoDL,
     mProjectedNodes |-> <<>>]

RECURSIVE ChildIndices(_, _)
ChildIndices(ops, i) ==
    IF i > Len(ops) THEN <<>>
    ELSE IF ops[i].opId = "RenderNodeOp" THEN <<i - 1>> \o ChildIndices(ops, i + 1)
    ELSE ChildIndices(ops, i + 1)

ChildrenBefore(ops, k) == Cardinality({i \in 1 .. k : ops[i].opId = "RenderNodeOp"})

\* a display list of ops whose chunk j ends before op ends[j] and has
\* reorderChildren = reorder[j]
DisplayList(ops, ends, reorder, projectionReceiveIndex) ==
    [ops |-> ops,
     chunks |-> [j \in 1 .. Len(ends) |->
                    LET begin == IF j = 1 THEN 0 ELSE ends[j - 1]
                    IN  [beginOpIndex |-> begin, endOpIndex |-> ends[j],
                         beginChildIndex |-> ChildrenBefore(ops, begin),
                         endChildIndex |-> ChildrenBefore(ops, ends[j]),
                         reorderChildren |-> reorder[j]]],
     children |-> ChildIndices(ops, 1),
     projectionReceiveIndex |-> projectionReceiveIndex,
     isNull |-> FALSE]

OneChunk(ops, reorder) == DisplayList(ops, <<Len(ops)>>, <<reorder>>, -1)

WithDisplayList(node, dl) == [node EXCEPT !.displayList = dl, !.nothingToDraw = FALSE]

Scene(entries, roots, sceneClip, tree) ==
    [layers |-> entries, nodes |-> roots, clip |-> sceneClip, renderNodes |-> tree]

NoNodes == [n \in NodeIds |-> RenderNode]
ViewportClip == Rect(0, 0, ViewportWidth, ViewportHeight)

\* Rects: A and B overlap, C is apart from both, Off is outside the viewport
RectA == Rect(0, 0, 4, 4)
RectB == Rect(2, 2, 6, 6)
RectC == Rect(6, 6, 9, 9)
RectOff == Rect(20, 20, 24, 24)

Paints == {Paint(FALSE, FALSE), Paint(TRUE, FALSE), Paint(FALSE, TRUE)}
RectOps == {RectOp(r, p) : r \in {RectA, RectB, RectC}, p \in Paints}

\* Batching: one root with NumRectOps rect ops
NumRectOps == 3
BatchScenes ==
    {Scene(<<>>, <<1>>, ViewportClip,
           [NoNodes EXCEPT ![1] = WithDisplayList(RenderNode, OneChunk(ops, TRUE))]) :
        ops \in [1 .. NumRectOps -> RectOps]}

\* Z order: a root with three children around a rect
ZValues == {-40, 0, 40, 41, 43}
PlainRect == RectOp(RectA, Paint(FALSE, FALSE))
Leaf == WithDisplayList(RenderNode, OneChunk(<<PlainRect>>, TRUE))
ZChild(z, v) ==
    [Leaf EXCEPT !.z = z, !.alpha = v.alpha, !.nothingToDraw = v.nothingToDraw,
                 !.outlinePath = v.outlinePath]
ZVariants ==
    {[alpha |-> AlphaOne, nothingToDraw |-> FALSE, outlinePath |-> TRUE],
     [alpha |-> AlphaOne, nothingToDraw |-> FALSE, outlinePath |-> FALSE],
     [alpha |-> 0, nothingToDraw |-> FALSE, outlinePath |-> TRUE],
     [alpha |-> 0, nothingToDraw |-> TRUE, outlinePath |-> TRUE]}
ZRoot(reorder) ==
    WithDisplayList(RenderNode,
        OneChunk(<<RenderNodeOp(2), RectOp(RectB, Paint(TRUE, FALSE)),
                   RenderNodeOp(3), RenderNodeOp(4)>>, reorder))
ZScenes ==
    {Scene(<<>>, <<1>>, ViewportClip,
           [NoNodes EXCEPT ![1] = ZRoot(reorder),
                           ![2] = ZChild(z[1], CHOOSE v \in ZVariants :
                                                   v.alpha = AlphaOne /\ v.outlinePath),
                           ![3] = ZChild(z[2], v3),
                           ![4] = ZChild(z[3], CHOOSE v \in ZVariants :
                                                   v.alpha = AlphaOne /\ v.outlinePath)]) :
        z \in [1 .. 3 -> ZValues], reorder \in BOOLEAN, v3 \in ZVariants}

\* Two chunks, each with a child and a rect
ChunkScenes ==
    {Scene(<<>>, <<1>>, ViewportClip,
           [NoNodes EXCEPT
               ![1] = WithDisplayList(RenderNode,
                          DisplayList(<<RenderNodeOp(2), PlainRect,
                                        RectOp(RectC, Paint(TRUE, FALSE)), RenderNodeOp(3)>>,
                                      <<2, 4>>, reorder, -1)),
               ![2] = [Leaf EXCEPT !.z = z[1]],
               ![3] = [Leaf EXCEPT !.z = z[2]]]) :
        z \in [1 .. 2 -> {-40, 0, 40}], reorder \in [1 .. 2 -> BOOLEAN]}

\* Display lists in which save-layers are opened and closed like brackets
MaxOps == 4
OpAlphabet ==
    {PlainRect, BeginLayerOp(RectB, NoPaint), BeginLayerOp(RectOff, NoPaint), EndLayerOp,
     BeginUnclippedLayerOp(RectA), EndUnclippedLayerOp, RenderNodeOp(2)}

\* the save-layers left open by ops, innermost last; <<"unbalanced">> on a
\* mismatch
RECURSIVE OpenLayers(_, _)
OpenLayers(ops, open) ==
    IF ops = <<>> THEN open
    ELSE LET id == Head(ops).opId
         IN  IF id \in {"BeginLayerOp", "BeginUnclippedLayerOp"}
             THEN OpenLayers(Tail(ops), Append(open, id))
             ELSE IF id = "EndLayerOp"
             THEN IF open # <<>> /\ Last(open) = "BeginLayerOp"
                  THEN OpenLayers(Tail(ops), Front(open)) ELSE <<"unbalanced">>
             ELSE IF id = "EndUnclippedLayerOp"
             THEN IF open # <<>> /\ Last(open) = "BeginUnclippedLayerOp"
                  THEN OpenLayers(Tail(ops), Front(open)) ELSE <<"unbalanced">>
             ELSE OpenLayers(Tail(ops), open)
Balanced(ops) == OpenLayers(ops, <<>>) = <<>>

BalancedOps(alphabet, maxLen) ==
    {ops \in UNION {[1 .. k -> alphabet] : k \in 0 .. maxLen} : Balanced(ops)}

HasChild(ops) == \E i \in 1 .. Len(ops) : ops[i].opId = "RenderNodeOp"

\* a rect whose paint is half transparent
TranslucentRect == RectOp(RectA, [Paint(FALSE, FALSE) EXCEPT !.alpha = 128])

\* the child of a save-layer scene
ChildVariants ==
    {Leaf,
     [Leaf EXCEPT !.alpha = AlphaOne \div 2],
     [Leaf EXCEPT !.alpha = AlphaOne \div 2, !.clipFlags = {CLIP_TO_BOUNDS}],
     [Leaf EXCEPT !.alpha = AlphaOne \div 2, !.hasOverlappingRendering = FALSE],
     [Leaf EXCEPT !.alpha = 0, !.nothingToDraw = FALSE],
     [Leaf EXCEPT !.isLayer = TRUE, !.hasLayer = TRUE],
     [Leaf EXCEPT !.clipFlags = {CLIP_TO_BOUNDS}, !.left = 2],
     [Leaf EXCEPT !.left = 20],
     [Leaf EXCEPT !.alpha = AlphaOne \div 2, !.hasOverlappingRendering = FALSE,
                  !.displayList = OneChunk(<<TranslucentRect>>, TRUE)]}

SaveLayerScenes ==
    {Scene(<<>>, <<1>>, ViewportClip,
           [NoNodes EXCEPT ![1] = WithDisplayList(RenderNode, OneChunk(ops, TRUE)),
                           ![2] = child]) :
        ops \in BalancedOps(OpAlphabet, MaxOps), child \in ChildVariants}

SaveLayerSceneOK(scene) ==
    HasChild(scene.renderNodes[1].displayList.ops) \/ scene.renderNodes[2] = Leaf

\* Layer-update queue: the layer nodes 1 and 2 and an optional root 4
LayerNodeIds == {1, 2}
Queues == {<<>>, <<1>>, <<2>>, <<1, 2>>, <<2, 1>>}
LayerNode(dl) ==
    [RenderNode EXCEPT !.isLayer = TRUE, !.hasLayer = TRUE, !.displayList = dl,
                       !.nothingToDraw = dl.isNull]
LayerDisplayLists ==
    {NoDL} \cup
    {OneChunk(ops, TRUE) :
        ops \in {<<PlainRect>>,
                 <<PlainRect, RectOp(RectB, Paint(TRUE, FALSE))>>,
                 <<BeginLayerOp(RectB, NoPaint), PlainRect, EndLayerOp>>,
                 <<BeginLayerOp(RectOff, NoPaint), PlainRect, EndLayerOp>>,
                 <<BeginUnclippedLayerOp(RectA), PlainRect, EndUnclippedLayerOp>>}}
LayerNodeVariants ==
    {[LayerNode(dl) EXCEPT !.alpha = a] : dl \in LayerDisplayLists, a \in {0, AlphaOne}}
InQueue(q, n) == \E i \in 1 .. Len(q) : q[i] = n
LayerRoot ==
    WithDisplayList(RenderNode, OneChunk(<<PlainRect, RenderNodeOp(1)>>, TRUE))
Damage == Rect(0, 0, 8, 8)
LayerScenes ==
    {Scene([i \in 1 .. Len(q) |-> [renderNode |-> q[i], damage |-> Damage]],
           roots, ViewportClip,
           [NoNodes EXCEPT ![1] = v[1], ![2] = v[2], ![4] = LayerRoot]) :
        q \in Queues, roots \in {<<>>, <<4>>}, v \in [LayerNodeIds -> LayerNodeVariants]}
LayerSceneOK(scene) ==
    \A n \in LayerNodeIds :
        \/ InQueue([i \in 1 .. Len(scene.layers) |-> scene.layers[i].renderNode], n)
        \/ scene.renderNodes[n] = LayerNode(NoDL)

\* Depth: the chain 1 -> 2 -> 3
DepthVariants ==
    {RenderNode,
     [RenderNode EXCEPT !.alpha = 0],
     [RenderNode EXCEPT !.alpha = 0, !.nothingToDraw = TRUE],
     [RenderNode EXCEPT !.alpha = AlphaOne \div 2],
     [RenderNode EXCEPT !.alpha = AlphaOne \div 2, !.hasOverlappingRendering = FALSE]}
DepthNode(v, ops) ==
    [v EXCEPT !.displayList = OneChunk(ops, TRUE),
              !.nothingToDraw = v.alpha = 0 /\ v.nothingToDraw]
DepthScenes ==
    {Scene(<<>>, <<1, 1>>, ViewportClip,
           [NoNodes EXCEPT
               ![1] = DepthNode([v[1] EXCEPT !.nothingToDraw = FALSE],
                                <<PlainRect, RenderNodeOp(2)>>),
               ![2] = DepthNode([v[2] EXCEPT !.nothingToDraw = FALSE],
                                <<RenderNodeOp(3), PlainRect>>),
               ![3] = [DepthNode([v[3] EXCEPT !.nothingToDraw = FALSE], <<PlainRect>>)
                          EXCEPT !.z = z]]) :
        v \in [1 .. 3 -> DepthVariants], z \in {0, 40}}

\* Projection: node 3 projects onto the background node 2 of root 1
ProjectedNode(opIndex, tx) ==
    [op |-> <<1, opIndex>>, transformFromCompositingAncestor |-> Translate(tx, 0)]
ProjectedLists ==
    {<<>>, <<ProjectedNode(1, 0)>>, <<ProjectedNode(2, 1), ProjectedNode(1, 0)>>}
ProjectionScenes ==
    {Scene(<<>>, <<1>>, ViewportClip,
           [NoNodes EXCEPT
               ![1] = [WithDisplayList(RenderNode,
                           DisplayList(<<RenderNodeOp(2), RenderNodeOp(3), RenderNodeOp(4),
                                         PlainRect>>,
                                       <<4>>, <<reorder>>, receive))
                          EXCEPT !.mProjectedNodes = projected],
               ![2] = [Leaf EXCEPT !.translationX = tx, !.z = z],
               ![3] = [Leaf EXCEPT !.projectBackwards = TRUE, !.alpha = a],
               ![4] = [Leaf EXCEPT !.projectBackwards = TRUE]]) :
        reorder \in BOOLEAN, tx \in {0, 2}, z \in {0, 40}, a \in {0, AlphaOne},
        projected \in ProjectedLists, receive \in {-1, 0}}

\* Display lists whose save-layer ops need not pair up: in the root, in its
\* child, or in a node of the layer-update queue
MaxUnpairedOps == 3
UnpairedAlphabet ==
    {PlainRect, BeginLayerOp(RectB, NoPaint), EndLayerOp,
     BeginUnclippedLayerOp(RectA), EndUnclippedLayerOp, RenderNodeOp(2)}
UnpairedOps == UNION {[1 .. k -> UnpairedAlphabet] : k \in 1 .. MaxUnpairedOps}
UnpairedChildVariants ==
    {Leaf,
     WithDisplayList(RenderNode, OneChunk(<<EndLayerOp>>, TRUE)),
     WithDisplayList(RenderNode, OneChunk(<<EndUnclippedLayerOp>>, TRUE)),
     [WithDisplayList(RenderNode, OneChunk(<<EndLayerOp, PlainRect>>, TRUE))
         EXCEPT !.alpha = AlphaOne \div 2]}
UnpairedLayerDisplayLists ==
    {OneChunk(ops, TRUE) :
        ops \in {<<EndLayerOp>>, <<PlainRect, EndLayerOp>>, <<EndUnclippedLayerOp>>,
                 <<BeginLayerOp(RectB, NoPaint), EndLayerOp, EndLayerOp>>}}
UnpairedScenes ==
    {Scene(<<>>, <<1>>, ViewportClip,
           [NoNodes EXCEPT ![1] = WithDisplayList(RenderNode, OneChunk(ops, TRUE)),
                           ![2] = child]) :
        ops \in UnpairedOps,
        child \in UnpairedChildVariants}
    \cup
    {Scene(<<[renderNode |-> 1, damage |-> Damage]>>, roots, ViewportClip,
           [NoNodes EXCEPT ![1] = LayerNode(dl), ![4] = LayerRoot]) :
        roots \in {<<>>, <<4>>}, dl \in UnpairedLayerDisplayLists}
UnpairedSceneOK(scene) ==
    scene.layers # <<>> \/ SaveLayerSceneOK(scene)

\* Save-layers and rects that lie outside the clip they are met under
OffClipScenes ==
    {Scene(<<>>, <<1>>, ViewportClip,
           [NoNodes EXCEPT ![1] = WithDisplayList(RenderNode, OneChunk(ops, TRUE))]) :
        ops \in {<<BeginUnclippedLayerOp(RectOff), PlainRect, EndUnclippedLayerOp>>,
                 <<BeginUnclippedLayerOp(RectOff), RectOp(RectOff, Paint(FALSE, FALSE)),
                   EndUnclippedLayerOp, PlainRect>>,
                 <<BeginLayerOp(RectA, NoPaint), BeginUnclippedLayerOp(RectC),
                   PlainRect, EndUnclippedLayerOp, EndLayerOp>>}}

\* A clipped save-layer met under a clip (the damaged part of the viewport)
\* that covers it, cuts it or misses it
DamageClips == {ViewportClip, Rect(2, 2, 10, 10), Rect(6, 6, 10, 10)}
ClippedLayerScenes ==
    {Scene(<<>>, <<1>>, damageClip,
           [NoNodes EXCEPT
               ![1] = WithDisplayList(RenderNode,
                          OneChunk(<<BeginLayerOp(bounds, NoPaint), RectOp(bounds, paint),
                                     EndLayerOp>>, TRUE))]) :
        damageClip \in DamageClips, bounds \in {RectA, RectB, RectC}, paint \in Paints}

\* Shapes: two ops of the strokeable kinds, one over the other
ShapeOpIds == {"RectOp", "RoundRectOp", "OvalOp", "ArcOp", "PathOp"}
ShapePaints == Paints \cup {Paint(TRUE, TRUE)}
ShapeOps == {Op(id, RectA, p, 0) : id \in ShapeOpIds, p \in ShapePaints}
ShapeScenes ==
    {Scene(<<>>, <<1>>, ViewportClip,
           [NoNodes EXCEPT ![1] = WithDisplayList(RenderNode, OneChunk(<<a, b>>, TRUE))]) :
        a \in ShapeOps, b \in ShapeOps}

\* Bitmaps: any bitmap op, then one that can merge with it
GenerationIds == {1, 2}
Bitmaps ==
    {Bitmap(g, a8, x, t, c) :
        g \in GenerationIds, a8 \in BOOLEAN, x \in {"SrcOver", "Src"},
        t \in {"Translate", "Simple", "Rotated", "NegativeScale"},
        c \in {"null", "Rectangle", "Region"}}
BitmapScenes ==
    {Scene(<<>>, <<1>>, ViewportClip,
           [NoNodes EXCEPT ![1] = WithDisplayList(RenderNode, OneChunk(ops, TRUE))]) :
        ops \in {<<BitmapOp(RectA, first), BitmapOp(r, Bitmap(1, FALSE, "SrcOver", "Simple", c))>> :
                     first \in Bitmaps, r \in {RectB, RectC, RectOff},
                     c \in {"Rectangle", "Region"}}}

\* Patches and texts: any such op, then one that can merge with it
MergeKinds ==
    {Bitmap(g, FALSE, x, t, c) :
        g \in GenerationIds, x \in {"SrcOver", "Src"},
        t \in {"Translate", "Simple", "Rotated"},
        c \in {"null", "Rectangle", "Region"}}
PatchScenes ==
    {Scene(<<>>, <<1>>, ViewportClip,
           [NoNodes EXCEPT ![1] = WithDisplayList(RenderNode, OneChunk(ops, TRUE))]) :
        ops \in {<<PatchOp(RectA, first),
                   PatchOp(r, Bitmap(1, FALSE, "SrcOver", "Translate", "Rectangle"))>> :
                     first \in MergeKinds, r \in {RectC, RectOff}}}
TextColors == {SK_ColorBLACK, SK_ColorBLACK + 1}
TextScenes ==
    {Scene(<<>>, <<1>>, ViewportClip,
           [NoNodes EXCEPT ![1] = WithDisplayList(RenderNode, OneChunk(ops, TRUE))]) :
        ops \in {<<TextOp(RectA, color, first),
                   TextOp(RectC, SK_ColorBLACK,
                          Bitmap(1, FALSE, "SrcOver", "Translate", "Rectangle"))>> :
                     first \in {kind \in MergeKinds : kind.generationId = 1},
                     color \in TextColors}}

\* Save-layers three deep
NestedLayerScenes ==
    {Scene(<<>>, <<1>>, ViewportClip,
           [NoNodes EXCEPT ![1] = WithDisplayList(RenderNode, OneChunk(ops, TRUE))]) :
        ops \in {<<BeginLayerOp(RectB, NoPaint), BeginUnclippedLayerOp(RectA),
                   BeginLayerOp(inner, NoPaint), PlainRect, EndLayerOp,
                   EndUnclippedLayerOp, EndLayerOp>> : inner \in {RectA, RectOff}}}

\* a translucent child with every combination of the clip flags, clip bounds
\* that are empty, inside the node or off it, with and without overlapping
\* rendering, of layer type or not
AlphaClipBounds == {EmptyRect, RectB, RectOff}
AlphaClipChildren ==
    {[Leaf EXCEPT !.alpha = AlphaOne \div 2, !.clipFlags = flags,
                  !.clipBounds = bounds, !.hasOverlappingRendering = overlap,
                  !.isLayer = isLayer] :
        flags \in SUBSET {CLIP_TO_BOUNDS, CLIP_TO_CLIP_BOUNDS},
        bounds \in AlphaClipBounds, overlap \in BOOLEAN, isLayer \in BOOLEAN}
AlphaClipScenes ==
    {Scene(<<>>, <<1>>, ViewportClip,
           [NoNodes EXCEPT
               ![1] = WithDisplayList(RenderNode, OneChunk(<<RenderNodeOp(2)>>, TRUE)),
               ![2] = child]) :
        child \in AlphaClipChildren}

\* a clipped save-layer at the origin that holds another one, under each
\* damage clip
NestedClippedLayerScenes ==
    {Scene(<<>>, <<1>>, damageClip,
           [NoNodes EXCEPT
               ![1] = WithDisplayList(RenderNode,
                          OneChunk(<<BeginLayerOp(RectA, NoPaint),
                                     BeginLayerOp(RectC, NoPaint),
                                     PlainRect, EndLayerOp, EndLayerOp>>, TRUE))]) :
        damageClip \in DamageClips}

Scenes ==
    BatchScenes \cup ZScenes \cup ChunkScenes \cup OffClipScenes \cup NestedLayerScenes
    \cup ShapeScenes \cup BitmapScenes \cup PatchScenes \cup TextScenes
    \cup {scene \in SaveLayerScenes : SaveLayerSceneOK(scene)}
    \cup {scene \in LayerScenes : LayerSceneOK(scene)}
    \cup DepthScenes \cup ProjectionScenes \cup ClippedLayerScenes \cup AlphaClipScenes
    \cup NestedClippedLayerScenes

ChildOps(tree) ==
    UNION {{<<n, i>> : i \in {j \in 0 .. Len(tree[n].displayList.ops) - 1 :
                                tree[n].displayList.ops[j + 1].opId = "RenderNodeOp"}} :
           n \in NodeIds}

----------------------------------------------------------------------------
(* Specification *)

(***************************************************************************)
(* RenderNode parent counts (tests/unit/RenderNodeTests.cpp, hasParents).   *)
(* A display list is kept by the RenderNodeOps it holds: the sequence of   *)
(* the nodes it draws.  A node draws only nodes with a greater id, so the  *)
(* hierarchy has no cycle.                                                 *)
(***************************************************************************)
\* A parent, a child and a grandchild.
TreeNodeIds == {1, 2, 3}
MaxChildOps == 2

NullDisplayList == [null |-> TRUE, children |-> <<>>]
DisplayListDrawing(children) == [null |-> FALSE, children |-> children]

\* A freshly created node: no display list, nobody draws it.
NewRenderNode ==
    [mStagingDisplayList |-> NullDisplayList, mDisplayList |-> NullDisplayList,
     mParentCount |-> 0]

\* The display lists a recording of node n can produce.
DisplayListsOf(n) ==
    {DisplayListDrawing(children) :
        children \in UNION {[1 .. len -> {c \in TreeNodeIds : c > n}] :
                               len \in 0 .. MaxChildOps}}

hasParents(h, n) == h[n].mParentCount > 0

\* incParentRefCount (d = 1) or decParentRefCount (d = -1) on every node the
\* display list draws, once per RenderNodeOp.
RECURSIVE adjustParentRefCounts(_, _, _)
adjustParentRefCounts(h, children, d) ==
    IF children = <<>>
    THEN h
    ELSE adjustParentRefCounts([h EXCEPT ![Head(children)].mParentCount = @ + d],
                               Tail(children), d)

\* RenderNode::setStagingDisplayList: only the staging list changes.
setStagingDisplayList(h, n, displayList) ==
    [h EXCEPT ![n].mStagingDisplayList = displayList]

syncDisplayListKeepingOldParents(h, n) ==
    LET inc == adjustParentRefCounts(h, h[n].mStagingDisplayList.children, 1)
    IN  [inc EXCEPT ![n].mDisplayList = h[n].mStagingDisplayList,
                    ![n].mStagingDisplayList = NullDisplayList]

\* RenderNode::syncDisplayList: the children of the staging list gain a
\* parent, the children of the list being replaced lose one, and the staging
\* list becomes the synced list.
syncDisplayList(h, n) ==
    LET inc == adjustParentRefCounts(h, h[n].mStagingDisplayList.children, 1)
        dec == adjustParentRefCounts(inc, h[n].mDisplayList.children, -1)
    IN  [dec EXCEPT ![n].mDisplayList = h[n].mStagingDisplayList,
                    ![n].mStagingDisplayList = NullDisplayList]

\* TestUtils::syncHierarchyPropertiesAndDisplayListImpl: sync the node, then
\* every node its synced display list draws.
RECURSIVE syncHierarchyPropertiesAndDisplayListImpl(_, _)
RECURSIVE syncChildren(_, _)
syncHierarchyPropertiesAndDisplayListImpl(h, n) ==
    LET synced == syncDisplayList(h, n)
    IN  syncChildren(synced, synced[n].mDisplayList.children)

syncChildren(h, children) ==
    IF children = <<>>
    THEN h
    ELSE syncChildren(syncHierarchyPropertiesAndDisplayListImpl(h, Head(children)),
                      Tail(children))

(***************************************************************************)
(* PathParser (PathParser.cpp).  A C string is the sequence of its chars;  *)
(* reading at its length gives the terminating NUL.  Indices are 0-based  *)
(* as in the code.  A float is kept as the text strtof converts.           *)
(***************************************************************************)
NUL == ""
PathChars == {"M", "z", "e", "1", "-", ".", " "}
MaxStrLen == 4

At(s, index) == IF index < Len(s) THEN s[index + 1] ELSE NUL

\* the char codes the tests of line 38 compute with
Code(c) ==
    CASE c = "M" -> 77 [] c = "z" -> 122 [] c = "e" -> 101 [] c = "1" -> 49
      [] c = "-" -> 45 [] c = "." -> 46 [] c = " " -> 32
      [] c = "E" -> 69 [] c = "L" -> 76 [] c = "," -> 44
      [] c = "0" -> 48 [] c = "2" -> 50 [] c = "3" -> 51 [] c = "5" -> 53
      [] OTHER -> 0

\* line 38 alone: every letter is taken for a command
StartsCommandAtAnyLetter(c) ==
    \/ (Code(c) - 65) * (Code(c) - 90) <= 0
    \/ (Code(c) - 97) * (Code(c) - 122) <= 0

\* line 38-39
StartsCommand(c) ==
    /\ \/ (Code(c) - 65) * (Code(c) - 90) <= 0
       \/ (Code(c) - 97) * (Code(c) - 122) <= 0
    /\ c # "e"
    /\ c # "E"

RECURSIVE nextStart(_, _, _)
nextStart(s, length, index) ==
    IF index < length
    THEN IF StartsCommand(At(s, index)) THEN index ELSE nextStart(s, length, index + 1)
    ELSE index

\* the loop of extract with a '-' taken for a separator wherever it stands
RECURSIVE extractFromSplittingAtEveryMinus(_, _, _, _, _, _)
extractFromSplittingAtEveryMinus(s, start, end, currentIndex, secondDot, isPrevExponential) ==
    IF currentIndex >= end
    THEN [endPosition |-> currentIndex, endWithNegOrDot |-> FALSE]
    ELSE LET currentChar == At(s, currentIndex)
         IN  IF currentChar \in {" ", ","}
             THEN [endPosition |-> currentIndex, endWithNegOrDot |-> FALSE]
             ELSE IF currentChar = "-" /\ ~isPrevExponential
             THEN [endPosition |-> currentIndex, endWithNegOrDot |-> TRUE]
             ELSE IF currentChar = "." /\ secondDot
             THEN [endPosition |-> currentIndex, endWithNegOrDot |-> TRUE]
             ELSE extractFromSplittingAtEveryMinus(s, start, end, currentIndex + 1,
                                                   secondDot \/ currentChar = ".",
                                                   currentChar \in {"e", "E"})

\* the loop of extract from currentIndex on
RECURSIVE extractFrom(_, _, _, _, _, _)
extractFrom(s, start, end, currentIndex, secondDot, isPrevExponential) ==
    IF currentIndex >= end
    THEN [endPosition |-> currentIndex, endWithNegOrDot |-> FALSE]
    ELSE LET currentChar == At(s, currentIndex)
         IN  IF currentChar \in {" ", ","}
             THEN [endPosition |-> currentIndex, endWithNegOrDot |-> FALSE]
             ELSE IF currentChar = "-" /\ currentIndex # start /\ ~isPrevExponential
             THEN [endPosition |-> currentIndex, endWithNegOrDot |-> TRUE]
             ELSE IF currentChar = "." /\ secondDot
             THEN [endPosition |-> currentIndex, endWithNegOrDot |-> TRUE]
             ELSE extractFrom(s, start, end, currentIndex + 1,
                              secondDot \/ currentChar = ".",
                              currentChar \in {"e", "E"})

extract(s, start, end) == extractFrom(s, start, end, start, FALSE, FALSE)

\* the first index from index on that holds no digit
RECURSIVE DigitsEnd(_, _)
DigitsEnd(s, index) ==
    IF Code(At(s, index)) >= 48 /\ Code(At(s, index)) <= 57
    THEN DigitsEnd(s, index + 1) ELSE index

\* strtof(&s[startPosition], NULL): the longest prefix that reads as a
\* decimal float (sign, digits with at most one point, exponent with at
\* least one digit); <<>> when nothing converts and the value is 0.
strtof(s, startPosition) ==
    LET mantissa == IF At(s, startPosition) \in {"-", "+"}
                    THEN startPosition + 1 ELSE startPosition
        point == DigitsEnd(s, mantissa)
        fraction == IF At(s, point) = "." THEN DigitsEnd(s, point + 1) ELSE point
        digits == (point - mantissa) + (IF fraction > point THEN fraction - point - 1 ELSE 0)
        exponent == IF At(s, fraction + 1) \in {"-", "+"} THEN fraction + 2 ELSE fraction + 1
        last == IF At(s, fraction) \in {"e", "E"} /\ DigitsEnd(s, exponent) > exponent
                THEN DigitsEnd(s, exponent) ELSE fraction
    IN  IF digits = 0 THEN <<>> ELSE SubSeq(s, startPosition + 1, last)

\* the loop of getFloats from startPosition on
RECURSIVE getFloatsFrom(_, _, _, _)
getFloatsFrom(outPoints, pathStr, startPosition, end) ==
    IF startPosition >= end THEN outPoints
    ELSE LET r == extract(pathStr, startPosition, end)
             points == IF startPosition < r.endPosition
                       THEN Append(outPoints, strtof(pathStr, startPosition))
                       ELSE outPoints
         IN  getFloatsFrom(points, pathStr,
                           IF r.endWithNegOrDot THEN r.endPosition ELSE r.endPosition + 1,
                           end)

getFloats(pathStr, start, end) ==
    IF At(pathStr, start) \in {"z", "Z"} THEN <<>>
    ELSE getFloatsFrom(<<>>, pathStr, start + 1, end)

PathData(verbs, verbSizes, points) ==
    [verbs |-> verbs, verbSizes |-> verbSizes, points |-> points]
EmptyPathData == PathData(<<>>, <<>>, <<>>)

\* the floats of a verb put in front of those of the earlier verbs
RECURSIVE getPathDataFromPrepending(_, _, _, _, _)
getPathDataFromPrepending(data, pathStr, strLen, start, end) ==
    IF end < strLen
    THEN LET next == nextStart(pathStr, strLen, end)
             points == getFloats(pathStr, start, next)
         IN  getPathDataFromPrepending(PathData(Append(data.verbs, At(pathStr, start)),
                                                Append(data.verbSizes, Len(points)),
                                                points \o data.points),
                                       pathStr, strLen, next, next + 1)
    ELSE IF end - start = 1 /\ At(pathStr, start) # NUL
    THEN PathData(Append(data.verbs, At(pathStr, start)), Append(data.verbSizes, 0),
                  data.points)
    ELSE data

\* lines 143-157: the loop from (start, end) on, and the last verb
RECURSIVE getPathDataFrom(_, _, _, _, _)
getPathDataFrom(data, pathStr, strLen, start, end) ==
    IF end < strLen
    THEN LET next == nextStart(pathStr, strLen, end)
             points == getFloats(pathStr, start, next)
         IN  getPathDataFrom(PathData(Append(data.verbs, At(pathStr, start)),
                                      Append(data.verbSizes, Len(points)),
                                      data.points \o points),
                             pathStr, strLen, next, next + 1)
    ELSE IF end - start = 1 /\ At(pathStr, start) # NUL
    THEN PathData(Append(data.verbs, At(pathStr, start)), Append(data.verbSizes, 0),
                  data.points)
    ELSE data

getPathDataFromString(data, isNull, pathStr, strLen) ==
    IF isNull THEN data ELSE getPathDataFrom(data, pathStr, strLen, 0, 1)

\* VectorDrawablePath::verbsToPath: the path is rebuilt from the verbs and
\* their floats.
verbsToPath(data) == [verbs |-> data.verbs, points |-> data.points]

\* An SkPath that was built before the call, from something else.
EarlierPath == [verbs |-> <<"L">>, points |-> <<<<"1">>, <<"1">>>>]

\* without the test of line 191
parseStringForSkPathUnchecked(skPath, isNull, pathStr, strLen) ==
    LET pathData == getPathDataFromString(EmptyPathData, isNull, pathStr, strLen)
    IN  [skPath |-> verbsToPath(pathData), result |-> TRUE]

parseStringForSkPath(skPath, isNull, pathStr, strLen) ==
    LET pathData == getPathDataFromString(EmptyPathData, isNull, pathStr, strLen)
    IN  IF Len(pathData.verbs) = 0
        THEN [skPath |-> skPath, result |-> FALSE]
        ELSE [skPath |-> verbsToPath(pathData), result |-> TRUE]

\* The arguments of one call: a null pointer, or a string and its length.
PathStrings == UNION {[1 .. len -> PathChars] : len \in 0 .. MaxStrLen}
Call(isNull, pathStr, strLen) ==
    [isNull |-> isNull, pathStr |-> pathStr, strLen |-> strLen, called |-> "none",
     data |-> EmptyPathData, skPath |-> EarlierPath, result |-> FALSE]
Calls ==
    {Call(TRUE, <<>>, strLen) : strLen \in 0 .. MaxStrLen}
        \cup {Call(FALSE, pathStr, Len(pathStr)) : pathStr \in PathStrings}

\* No node exists / no parse was asked for: the state of these units while
\* a frame is built.
NoHierarchy == [n \in TreeNodeIds |-> NewRenderNode]
NoParse == Call(TRUE, <<>>, 0)

----------------------------------------------------------------------------
(* SystemUI jni: writeBacklightValue and the libusb calls it makes *)

MaxDevices == 2

\* what libusb_get_device_descriptor gives for a device: an error, the
\* descriptor of the panel (device_vid, device_pid), or another descriptor
DeviceKinds == {"error", "panel", "other"}
DeviceLists == UNION {[1 .. len -> DeviceKinds] : len \in 0 .. MaxDevices}

\* the locals of writeBacklightValue, where it is, and the calls made so far;
\* dev is the index of the device found, -1 for NULL
UsbCall(pc) ==
    [pc |-> pc, devs |-> <<>>, listObtained |-> FALSE, i |-> 0, dev |-> -1,
     opened |-> FALSE, calls |-> <<>>]
NoUsbCall == UsbCall("none")

\* one libusb call; usesList says that it was handed devs or an entry of it
LibusbCall(name, usesList) == [name |-> name, usesList |-> usesList]

\* how often the call of that name was made
CallCount(calls, name) == Cardinality({k \in 1 .. Len(calls) : calls[k].name = name})

InitFrom(scenes) ==
    /\ \E scene \in scenes :
        /\ layers = scene.layers
        /\ nodes = scene.nodes
        /\ clip = scene.clip
        /\ renderNodes = scene.renderNodes
    /\ skipInOrderDraw =
           [o \in ChildOps(renderNodes) |->
               renderNodes[renderNodes[o[1]].displayList.ops[o[2] + 1].renderNode]
                   .projectBackwards]
    /\ mLayerBuilders = <<>>
    /\ mLayerStack = <<>>
    /\ mCanvasState = <<>>
    /\ stack = <<Frame("FrameBuilder", 0)>>
    /\ log = <<>>
    /\ nextId = 0
    /\ cleared = {}
    /\ hierarchy = NoHierarchy
    /\ parser = NoParse
    /\ usb = NoUsbCall

Next ==
    \/ Construct
    \/ ConstructLayer
    \/ ConstructLayerRestore
    \/ ConstructNode
    \/ ConstructNodeRestore
    \/ DeferNodePropsAndOps
    \/ DeferNodePropsAndOpsEndLayer
    \/ DeferNodeOpsChunk
    \/ DeferNodeOpsPositive
    \/ DeferNodeOpsAfterChild
    \/ Defer3dChildren
    \/ Defer3dShadow
    \/ Defer3dBody
    \/ Defer3dChildrenReturn
    \/ DeferRenderNodeOpImpl
    \/ DeferRenderNodeOpImplRestore
    \/ DeferRenderNodeOp
    \/ DeferRectOp
    \/ DeferArcOp
    \/ DeferOvalOp
    \/ DeferPathOp
    \/ DeferRoundRectOp
    \/ DeferBitmapOp
    \/ DeferPatchOp
    \/ DeferTextOp
    \/ DeferBeginLayerOp
    \/ DeferEndLayerOp
    \/ DeferBeginUnclippedLayerOp
    \/ DeferEndUnclippedLayerOp
    \/ DeferProjectedChildren
    \/ DeferProjectedChild
    \/ DeferProjectedChildRestore
    \/ DeferProjectedChildrenReturn

Init == InitFrom(Scenes)
Spec == Init /\ [][Next]_vars

\* the same builder fed with display lists that break the pairing contract
InitAny == InitFrom(Scenes \cup {scene \in UnpairedScenes : UnpairedSceneOK(scene)})
SpecAny == InitAny /\ [][Next]_vars

\* The traversal of a root whose children are reordered by z, alone: the steps
\* a display list of rects and child nodes takes. The constructor runs on one
\* thread from its first statement to its return, so a step that can be
\* taken is taken.
LoopScenes ==
    {scene \in ZScenes :
        /\ scene.renderNodes[1].displayList.chunks[1].reorderChildren
        /\ scene.renderNodes[3].alpha = AlphaOne
        /\ scene.renderNodes[3].outlinePath}
InitLoop == InitFrom(LoopScenes)
NextLoop ==
    \/ Construct
    \/ ConstructNode
    \/ ConstructNodeRestore
    \/ DeferNodePropsAndOps
    \/ DeferNodeOpsChunk
    \/ DeferNodeOpsPositive
    \/ DeferNodeOpsAfterChild
    \/ Defer3dChildren
    \/ Defer3dShadow
    \/ Defer3dBody
    \/ Defer3dChildrenReturn
    \/ DeferRenderNodeOpImpl
    \/ DeferRenderNodeOpImplRestore
    \/ DeferRenderNodeOp
    \/ DeferRectOp
SpecLoop == InitLoop /\ [][NextLoop]_vars /\ WF_vars(NextLoop)

(***************************************************************************)
(* The RenderNode hierarchy on its own: nodes are recorded and synced in   *)
(* any order, as the test does by hand; no frame is being built.           *)
(***************************************************************************)
frameBuilder ==
    <<layers, nodes, clip, renderNodes, skipInOrderDraw, mLayerBuilders, mLayerStack,
      mCanvasState, stack, log, nextId, cleared>>

IdleFrameBuilder ==
    /\ layers = <<>>
    /\ nodes = <<>>
    /\ clip = EmptyRect
    /\ renderNodes = <<>>
    /\ skipInOrderDraw = <<>>
    /\ mLayerBuilders = <<>>
    /\ mLayerStack = <<>>
    /\ mCanvasState = <<>>
    /\ stack = <<>>
    /\ log = <<>>
    /\ nextId = 0
    /\ cleared = {}

\* TestUtils::recordNode: record a display list and stage it on the node.
RecordNode ==
    \E n \in TreeNodeIds : \E displayList \in DisplayListsOf(n) :
        /\ hierarchy' = setStagingDisplayList(hierarchy, n, displayList)
        /\ UNCHANGED <<frameBuilder, parser, usb>>

\* TestUtils::syncHierarchyPropertiesAndDisplayList on any node.
SyncHierarchyPropertiesAndDisplayList ==
    \E n \in TreeNodeIds :
        /\ hierarchy' = syncHierarchyPropertiesAndDisplayListImpl(hierarchy, n)
        /\ UNCHANGED <<frameBuilder, parser, usb>>

InitNode ==
    IdleFrameBuilder /\ hierarchy = NoHierarchy /\ parser = NoParse /\ usb = NoUsbCall
NextNode ==
    \/ RecordNode
    \/ SyncHierarchyPropertiesAndDisplayList
SpecNode == InitNode /\ [][NextNode]_vars

(***************************************************************************)
(* The PathParser on its own: one call of either entry point.              *)
(***************************************************************************)
GetPathDataFromString ==
    /\ parser.called = "none"
    /\ parser' = [parser EXCEPT
                     !.called = "getPathDataFromString",
                     !.data = getPathDataFromString(@, parser.isNull, parser.pathStr,
                                                    parser.strLen)]
    /\ UNCHANGED <<frameBuilder, hierarchy, usb>>

ParseStringForSkPath ==
    /\ parser.called = "none"
    /\ LET r == parseStringForSkPath(parser.skPath, parser.isNull, parser.pathStr,
                                     parser.strLen)
       IN  parser' = [parser EXCEPT !.called = "parseStringForSkPath",
                                    !.skPath = r.skPath, !.result = r.result]
    /\ UNCHANGED <<frameBuilder, hierarchy, usb>>

InitPath ==
    IdleFrameBuilder /\ hierarchy = NoHierarchy /\ parser \in Calls /\ usb = NoUsbCall
NextPath ==
    \/ GetPathDataFromString
    \/ ParseStringForSkPath
SpecPath == InitPath /\ [][NextPath]_vars

\* getFloats taken one iteration of its loop at a time, for a string and a
\* range start < end inside it; the call runs to its return, so a step that
\* can be taken is taken.
FloatsCall(pathStr, start, end) ==
    [pathStr |-> pathStr, start |-> start, end |-> end, called |-> "getFloats",
     startPosition |-> 0, endPosition |-> 0, endWithNegOrDot |-> FALSE,
     outPoints |-> <<>>]
FloatsStrings == UNION {[1 .. len -> PathChars] : len \in 1 .. MaxStrLen - 1}
FloatsCalls ==
    {FloatsCall(pathStr, start, end) :
        pathStr \in FloatsStrings, start \in 0 .. MaxStrLen, end \in 1 .. MaxStrLen}
InitFloats ==
    /\ IdleFrameBuilder
    /\ hierarchy = NoHierarchy
    /\ usb = NoUsbCall
    /\ parser \in {call \in FloatsCalls :
                      call.start < call.end /\ call.end <= Len(call.pathStr)}

\* lines 109-113
GetFloatsEnter ==
    /\ parser.called = "getFloats"
    /\ parser' = IF At(parser.pathStr, parser.start) \in {"z", "Z"}
                 THEN [parser EXCEPT !.called = "returned"]
                 ELSE [parser EXCEPT !.called = "loop",
                                     !.startPosition = parser.start + 1,
                                     !.endPosition = parser.start]
    /\ UNCHANGED <<frameBuilder, hierarchy, usb>>

\* lines 118-132, one iteration
GetFloatsIterate ==
    /\ parser.called = "loop"
    /\ parser.startPosition < parser.end
    /\ LET r == extract(parser.pathStr, parser.startPosition, parser.end)
       IN  parser' =
               [parser EXCEPT
                   !.endPosition = r.endPosition,
                   !.endWithNegOrDot = r.endWithNegOrDot,
                   !.outPoints =
                       IF parser.startPosition < r.endPosition
                       THEN Append(@, strtof(parser.pathStr, parser.startPosition))
                       ELSE @,
                   !.startPosition =
                       IF r.endWithNegOrDot THEN r.endPosition ELSE r.endPosition + 1]
    /\ UNCHANGED <<frameBuilder, hierarchy, usb>>

\* line 118, loop condition false
GetFloatsReturn ==
    /\ parser.called = "loop"
    /\ ~(parser.startPosition < parser.end)
    /\ parser' = [parser EXCEPT !.called = "returned"]
    /\ UNCHANGED <<frameBuilder, hierarchy, usb>>

NextFloats ==
    \/ GetFloatsEnter
    \/ GetFloatsIterate
    \/ GetFloatsReturn
SpecFloats == InitFloats /\ [][NextFloats]_vars /\ WF_vars(NextFloats)

\* The native method is entered; what libusb returns is up to the bus.
InitUsb ==
    /\ IdleFrameBuilder
    /\ hierarchy = NoHierarchy
    /\ parser = NoParse
    /\ usb = UsbCall("libusb_init")

Made(u, name, usesList) == [u EXCEPT !.calls = Append(@, LibusbCall(name, usesList))]

\* lines 49-53
LibusbInit ==
    /\ usb.pc = "libusb_init"
    /\ \E ok \in BOOLEAN :
           usb' = [Made(usb, "libusb_init", FALSE) EXCEPT
                      !.pc = IF ok THEN "libusb_get_device_list" ELSE "returned"]
    /\ UNCHANGED <<frameBuilder, hierarchy, parser>>

\* lines 55-58: on failure devs is not written and the function goes on; the
\* pointer then holds whatever the stack held, taken here for any list
LibusbGetDeviceList ==
    /\ usb.pc = "libusb_get_device_list"
    /\ \E ok \in BOOLEAN : \E devs \in DeviceLists :
           usb' = [Made(usb, "libusb_get_device_list", FALSE) EXCEPT
                      !.pc = "for", !.devs = devs, !.listObtained = ok, !.i = 0]
    /\ UNCHANGED <<frameBuilder, hierarchy, parser>>

\* the cleanup of lines 65-67, 78-80 and 86-88
FreeListExitReturn(u) ==
    [Made(Made(u, "libusb_free_device_list", TRUE), "libusb_exit", FALSE) EXCEPT
        !.pc = "returned"]

\* lines 60-74, one iteration; reading an entry of a list that was never
\* obtained may also fault
ForDevs ==
    /\ usb.pc = "for"
    /\ \/ /\ ~usb.listObtained
          /\ usb' = [usb EXCEPT !.pc = "fault"]
       \/ IF usb.i >= Len(usb.devs)
          THEN usb' = [usb EXCEPT !.pc = "libusb_open"]
          ELSE LET u == Made(usb, "libusb_get_device_descriptor", TRUE)
               IN  usb' = CASE usb.devs[usb.i + 1] = "error" -> FreeListExitReturn(u)
                            [] usb.devs[usb.i + 1] = "panel" ->
                                   [u EXCEPT !.dev = usb.i, !.pc = "libusb_open"]
                            [] OTHER -> [u EXCEPT !.i = @ + 1]
    /\ UNCHANGED <<frameBuilder, hierarchy, parser>>

\* lines 76-90
LibusbOpen ==
    /\ usb.pc = "libusb_open"
    /\ IF usb.dev = -1
       THEN usb' = FreeListExitReturn(usb)
       ELSE \E ok \in BOOLEAN :
                LET u == Made(usb, "libusb_open", TRUE)
                IN  usb' = IF ok
                           THEN [Made(u, "libusb_free_device_list", TRUE) EXCEPT
                                    !.opened = TRUE, !.pc = "libusb_claim_interface"]
                           ELSE FreeListExitReturn(u)
    /\ UNCHANGED <<frameBuilder, hierarchy, parser>>

\* lines 92-103
LibusbClaimInterface ==
    /\ usb.pc = "libusb_claim_interface"
    /\ \E active \in BOOLEAN : \E ok \in BOOLEAN :
           LET u0 == Made(usb, "libusb_kernel_driver_active", FALSE)
               u1 == IF active THEN Made(u0, "libusb_detach_kernel_driver", FALSE) ELSE u0
               u2 == Made(u1, "libusb_claim_interface", FALSE)
           IN  usb' = IF ok
                      THEN [u2 EXCEPT !.pc = "libusb_interrupt_transfer"]
                      ELSE [Made(Made(u2, "libusb_close", FALSE), "libusb_exit", FALSE)
                               EXCEPT !.pc = "returned"]
    /\ UNCHANGED <<frameBuilder, hierarchy, parser>>

\* lines 119-128
ReleaseInterface(u, released) ==
    IF released
    THEN [Made(Made(Made(u, "libusb_attach_kernel_driver", FALSE),
                    "libusb_close", FALSE), "libusb_exit", FALSE) EXCEPT !.pc = "returned"]
    ELSE [u EXCEPT !.pc = "returned"]

\* lines 105-129
LibusbInterruptTransfer ==
    /\ usb.pc = "libusb_interrupt_transfer"
    /\ \E transferred \in BOOLEAN : \E released \in BOOLEAN :
           usb' = ReleaseInterface(
                      Made(Made(usb, "libusb_interrupt_transfer", FALSE),
                           "libusb_release_interface", FALSE),
                      released)
    /\ UNCHANGED <<frameBuilder, hierarchy, parser>>

NextUsb ==
    \/ LibusbInit
    \/ LibusbGetDeviceList
    \/ ForDevs
    \/ LibusbOpen
    \/ LibusbClaimInterface
    \/ LibusbInterruptTransfer
SpecUsb == InitUsb /\ [][NextUsb]_vars

Done == stack # <<>> /\ top.fn = "FrameBuilder" /\ top.pc = "done"

TypeOK ==
    /\ mLayerStack \in Seq(Nat)
    /\ \A i \in 1 .. Len(mLayerStack) : mLayerStack[i] < Len(mLayerBuilders)

----------------------------------------------------------------------------
(* Properties of the layer stack and of the layer builders *)

InitialSaveDepth == Len(initializeSaveStack(clip))

\* the traversal runs: the constructor is past its initialisation
Constructed == stack # <<>> /\ ~Running("FrameBuilder", "start")

\* the ids of the baked ops a builder holds
RECURSIVE BatchedOps(_)
BatchedOps(batches) ==
    IF batches = <<>> THEN <<>>
    ELSE batches[1].ops \o BatchedOps(Tail(batches))
OpIds(builders, k) ==
    IF k > Len(builders) THEN {}
    ELSE {BatchedOps(builders[k].batches)[i].id :
              i \in 1 .. Len(BatchedOps(builders[k].batches))}
             \cup {builders[k].activeUnclippedSaveLayers[i].id :
                       i \in 1 .. Len(builders[k].activeUnclippedSaveLayers)}

C2_CurrentLayer ==
    /\ [](Constructed =>
              /\ mLayerStack # <<>>
              /\ Last(mLayerStack) \in 0 .. Len(mLayerBuilders) - 1
              /\ mLayerBuilders[1].width = ViewportWidth
              /\ mLayerBuilders[1].height = ViewportHeight
              /\ mLayerBuilders[1].repaintRect = clip
              /\ mLayerBuilders[1].beginLayerOp = NoOp
              /\ mLayerBuilders[1].renderNode = 0)
    /\ [][\A k \in 1 .. Len(mLayerBuilders') :
              OpIds(mLayerBuilders', k) \ OpIds(mLayerBuilders, k) # {}
                  => k = currentLayerIndex(FB)' + 1]_vars

\* an op went into a layer that is not the primary framebuffer, and the
\* traversal is back in the primary framebuffer with an op of its own
C2_Witness ==
    /\ Constructed
    /\ Len(mLayerStack) = 1
    /\ OpIds(mLayerBuilders, 1) # {}
    /\ \E k \in 2 .. Len(mLayerBuilders) : OpIds(mLayerBuilders, k) # {}

\* C3: clear() is never invoked on layerBuilders[0]: the builders that
\* deferEndLayerOp clears have an index of 1 or more, and the primary
\* builder is at index 0 once the constructor has created it.
C3_PrimaryNeverCleared ==
    /\ 0 \notin cleared
    /\ \A k \in cleared : k >= 1 /\ k < Len(mLayerBuilders)
    /\ Constructed => /\ Len(mLayerBuilders) >= 1
                      /\ mLayerBuilders[1].beginLayerOp = NoOp
                      /\ mLayerBuilders[1].renderNode = 0

\* a layer opened in the primary framebuffer was rejected and cleared
C3_Witness ==
    /\ cleared # {}
    /\ mLayerStack = <<0>>

\* the builders made for layer-update entries, in the order of their indices
EntryBuilders == SelectSeq(mLayerBuilders, LAMBDA lb : lb.renderNode # 0)
NumEntries == Len(layers)

\* C4 as stated: with N entries e0 .. e(N-1) in the queue, the builder at
\* index j (1 <= j <= N) is the builder of e(N-j), whatever the display
\* lists of the layer nodes hold.
C4_IndexIsReverseQueuePosition ==
    Done => \A j \in 1 .. NumEntries :
                /\ j < Len(mLayerBuilders)
                /\ mLayerBuilders[j + 1].renderNode = layers[NumEntries - j + 1].renderNode

\* C4, amended: the builders of the entries are N, they follow one another
\* in reverse queue order (the j-th of them is the builder of e(N-j)), the
\* first of them is at index 1, and the j-th is at index j when no
\* save-layer builder was created before it; a clipped save-layer in the
\* display list of a layer node puts its builder between them.
C4_ReverseQueueOrder ==
    Done => /\ Len(EntryBuilders) = NumEntries
            /\ \A j \in 1 .. NumEntries :
                   EntryBuilders[j].renderNode = layers[NumEntries - j + 1].renderNode
            /\ NumEntries > 0 => mLayerBuilders[2] = EntryBuilders[1]
            /\ \A j \in 1 .. NumEntries :
                   (\A k \in 2 .. Min(j + 1, Len(mLayerBuilders)) :
                        mLayerBuilders[k].beginLayerOp = NoOp)
                       => mLayerBuilders[j + 1] = EntryBuilders[j]

\* two entries, and the save-layer of the last one has its builder at index 2
C4_Witness ==
    /\ Done
    /\ NumEntries = 2
    /\ layers[1].renderNode # layers[2].renderNode
    /\ mLayerBuilders[3].beginLayerOp # NoOp
    /\ mLayerBuilders[4].renderNode = layers[1].renderNode

----------------------------------------------------------------------------
(* Properties of the batches *)

\* the index of the batch of builder lb that holds the op deferred as id
BatchOf(lb, id) ==
    CHOOSE b \in 1 .. Len(lb.batches) :
        \E i \in 1 .. Len(lb.batches[b].ops) : lb.batches[b].ops[i].id = id

\* the place of the op deferred as id in the order the builder replays
PlaceOf(lb, id) ==
    CHOOSE i \in 1 .. Len(BatchedOps(lb.batches)) : BatchedOps(lb.batches)[i].id = id

StatesOf(lb) == {BatchedOps(lb.batches)[i] : i \in 1 .. Len(BatchedOps(lb.batches))}

IsPlainRect(state, antiAlias) ==
    /\ state.opId = "RectOp"
    /\ state.op.paint.antiAlias = antiAlias
    /\ ~state.op.paint.pathEffect

\* C5: in every builder, two ops whose clipped bounds overlap are replayed
\* in the order they were deferred in, whatever batches they went to; a rect
\* without anti-aliasing followed by an overlapping anti-aliased rect is in
\* a Vertices batch that precedes the AlphaVertices batch of the second.
C5_OverlappingOpsKeepOrder ==
    \A k \in 1 .. Len(mLayerBuilders) :
        \A a, b \in StatesOf(mLayerBuilders[k]) :
            (a.id < b.id /\ intersects(a.clippedBounds, b.clippedBounds))
                => /\ PlaceOf(mLayerBuilders[k], a.id) < PlaceOf(mLayerBuilders[k], b.id)
                   /\ (IsPlainRect(a, FALSE) /\ IsPlainRect(b, TRUE))
                          => LET batchA == BatchOf(mLayerBuilders[k], a.id)
                                 batchB == BatchOf(mLayerBuilders[k], b.id)
                             IN  /\ batchA < batchB
                                 /\ mLayerBuilders[k].batches[batchA].batchId = "Vertices"
                                 /\ mLayerBuilders[k].batches[batchB].batchId
                                        = "AlphaVertices"

\* a rect, an overlapping anti-aliased rect, and a third op that joined the
\* batch of the first, ahead of the second
C5_Witness ==
    /\ Constructed
    /\ \E a, b, c \in StatesOf(mLayerBuilders[1]) :
        /\ a.id < b.id /\ b.id < c.id
        /\ IsPlainRect(a, FALSE) /\ IsPlainRect(b, TRUE)
        /\ intersects(a.clippedBounds, b.clippedBounds)
        /\ BatchOf(mLayerBuilders[1], c.id) = BatchOf(mLayerBuilders[1], a.id)
        /\ PlaceOf(mLayerBuilders[1], c.id) < PlaceOf(mLayerBuilders[1], b.id)

----------------------------------------------------------------------------
(* Properties of the z-reordered children *)

\* the z-children of a chunk of a node, named by the index of their
\* RenderNodeOp: the children of the chunk with a z other than 0, when the
\* chunk reorders its children
ZOf(parent, opIndex) == renderNodes[renderNodeOf(<<parent, opIndex>>)].z
ZChildrenOf(parent, chunkIndex) ==
    LET dl == displayListOf(parent)
        chunk == dl.chunks[chunkIndex + 1]
    IN  {dl.children[i + 1] : i \in {j \in chunk.beginChildIndex .. chunk.endChildIndex - 1 :
                                         /\ chunk.reorderChildren
                                         /\ ZOf(parent, dl.children[j + 1]) # 0}}

\* the places of the log at which ev was logged for the z-child opIndex of
\* the chunk traversal inst
Places(ev, inst, opIndex) ==
    {p \in 1 .. Len(log) :
        log[p].ev = ev /\ log[p].inst = inst /\ log[p].opIndex = opIndex}
Bodies == {p \in 1 .. Len(log) : log[p].ev = "body"}
Shadows == {p \in 1 .. Len(log) : log[p].ev = "shadow"}
ChunksEntered == {p \in 1 .. Len(log) : log[p].ev = "chunk"}

\* C6: the bodies of two z-children of one chunk with equal z are deferred
\* in the order the children are declared in: when the body of one is
\* deferred, the body of every z-child of equal z declared before it has
\* been deferred.
C6_EqualZKeepsDeclaredOrder ==
    \A p \in Bodies :
        \A c \in ZChildrenOf(log[p].parent, log[p].chunk) :
            (c < log[p].opIndex /\ ZOf(log[p].parent, c) = ZOf(log[p].parent, log[p].opIndex))
                => \E q \in Places("body", log[p].inst, c) : q < p

\* the bodies of two z-children of equal z were deferred
C6_Witness ==
    \E p, q \in Bodies :
        /\ p < q
        /\ log[p].inst = log[q].inst
        /\ log[p].opIndex < log[q].opIndex
        /\ ZOf(log[p].parent, log[p].opIndex) = ZOf(log[q].parent, log[q].opIndex)

\* the ops of the range of the chunk traversal inst dispatched before place p
OpsBefore(inst, p) ==
    {log[q].opIndex : q \in {r \in 1 .. p - 1 : log[r].ev = "op" /\ log[r].inst = inst}}
ChunkRange(parent, chunkIndex) ==
    displayListOf(parent).chunks[chunkIndex + 1].beginOpIndex
        .. displayListOf(parent).chunks[chunkIndex + 1].endOpIndex - 1

\* C7: in one chunk the bodies of the z-children with z < 0 are deferred in
\* ascending z before any op of the range of the chunk, those with z >= 0
\* in ascending z after all the ops of the range, and once the frame is
\* built every z-child of every chunk entered has its body deferred once.
C7_NegativeBeforeOpsPositiveAfter ==
    /\ \A p \in Bodies :
           /\ log[p].opIndex \in ZChildrenOf(log[p].parent, log[p].chunk)
           /\ Places("body", log[p].inst, log[p].opIndex) = {p}
           /\ ZOf(log[p].parent, log[p].opIndex) < 0
                  => log[p].mode = "Negative" /\ OpsBefore(log[p].inst, p) = {}
           /\ ZOf(log[p].parent, log[p].opIndex) >= 0
                  => /\ log[p].mode = "Positive"
                     /\ OpsBefore(log[p].inst, p) = ChunkRange(log[p].parent, log[p].chunk)
           /\ \A q \in Bodies :
                  (q < p /\ log[q].inst = log[p].inst)
                      => ZOf(log[q].parent, log[q].opIndex)
                             <= ZOf(log[p].parent, log[p].opIndex)
    /\ \A p \in 1 .. Len(log) :
           log[p].ev = "op"
               => \A c \in ZChildrenOf(log[p].parent, log[p].chunk) :
                      ZOf(log[p].parent, c) < 0
                          => \E q \in Places("body", log[p].inst, c) : q < p
    /\ Done => \A p \in ChunksEntered :
                   \A c \in ZChildrenOf(log[p].parent, log[p].chunk) :
                       Cardinality(Places("body", log[p].inst, c)) = 1

\* a chunk with a body before its ops and a body after them
C7_Witness ==
    \E p, q \in Bodies :
        /\ log[p].inst = log[q].inst
        /\ ZOf(log[p].parent, log[p].opIndex) < 0
        /\ ZOf(log[q].parent, log[q].opIndex) > 0
        /\ OpsBefore(log[q].inst, q) # {}

\* C8: in the Positive phase deferShadow is invoked exactly once for each
\* z-child with z >= 0, before the body of that child is deferred; it is
\* never invoked in the Negative phase nor for a z-child with z < 0.
C8_OneShadowBeforeEachPositiveBody ==
    /\ \A p \in Shadows :
           /\ log[p].mode = "Positive"
           /\ log[p].opIndex \in ZChildrenOf(log[p].parent, log[p].chunk)
           /\ ZOf(log[p].parent, log[p].opIndex) >= 0
           /\ Places("shadow", log[p].inst, log[p].opIndex) = {p}
    /\ \A p \in Bodies :
           IF ZOf(log[p].parent, log[p].opIndex) >= 0
           THEN \E q \in Places("shadow", log[p].inst, log[p].opIndex) : q < p
           ELSE Places("shadow", log[p].inst, log[p].opIndex) = {}
    /\ Done => \A p \in ChunksEntered :
                   \A c \in ZChildrenOf(log[p].parent, log[p].chunk) :
                       Cardinality(Places("shadow", log[p].inst, c))
                           = IF ZOf(log[p].parent, c) >= 0 THEN 1 ELSE 0

\* a chunk with the body of a z-child below 0 and the shadow and the body
\* of a z-child above 0
C8_Witness ==
    \E p, q, r \in 1 .. Len(log) :
        /\ p < q /\ q < r
        /\ log[p].inst = log[q].inst /\ log[q].inst = log[r].inst
        /\ log[p].ev = "body" /\ log[p].mode = "Negative"
        /\ log[q].ev = "shadow" /\ log[r].ev = "body"
        /\ log[q].opIndex = log[r].opIndex

\* A comes right before B in the sorted list of z-children
SortsBefore(parent, a, b) ==
    \/ ZOf(parent, a) < ZOf(parent, b)
    \/ ZOf(parent, a) = ZOf(parent, b) /\ a < b
Adjacent(parent, chunkIndex, a, b) ==
    /\ SortsBefore(parent, a, b)
    /\ ~\E c \in ZChildrenOf(parent, chunkIndex) :
            SortsBefore(parent, a, c) /\ SortsBefore(parent, c, b)

\* C9: for z-children A and B of one chunk with z >= 0, B right after A in
\* the sorted list and z(B) - z(A) below the threshold, the shadow of B is
\* deferred before the body of A.
C9_CloseCastersShadowsFirst ==
    \A p \in Bodies :
        \A b \in ZChildrenOf(log[p].parent, log[p].chunk) :
            (/\ ZOf(log[p].parent, log[p].opIndex) >= 0
             /\ Adjacent(log[p].parent, log[p].chunk, log[p].opIndex, b)
             /\ ZOf(log[p].parent, b) - ZOf(log[p].parent, log[p].opIndex)
                    < CasterZThreshold)
                => \E q \in Places("shadow", log[p].inst, b) : q < p

\* shadow, shadow, body, body for two z-children 0.05 apart
C9_Witness ==
    \E p \in 1 .. Len(log) - 3 :
        /\ log[p].ev = "shadow" /\ log[p + 1].ev = "shadow"
        /\ log[p + 2].ev = "body" /\ log[p + 2].opIndex = log[p].opIndex
        /\ log[p + 1].inst = log[p].inst /\ log[p + 2].inst = log[p].inst
        /\ ZOf(log[p].parent, log[p + 1].opIndex) - ZOf(log[p].parent, log[p].opIndex) = 1
        /\ \E q \in Bodies :
               q > p + 2 /\ log[q].inst = log[p].inst /\ log[q].opIndex = log[p + 1].opIndex

----------------------------------------------------------------------------
(* Properties of rejected nodes *)

\* every baked op any builder holds
AllStates ==
    UNION {StatesOf(mLayerBuilders[k])
               \cup {mLayerBuilders[k].activeUnclippedSaveLayers[i] :
                         i \in 1 .. Len(mLayerBuilders[k].activeUnclippedSaveLayers)} :
           k \in 1 .. Len(mLayerBuilders)}

\* the places of the path of a baked op held by nodes of alpha 0
TransparentPlaces(state) ==
    {i \in 1 .. Len(state.path.nodes) : renderNodes[state.path.nodes[i]].alpha = 0}

\* C10 as stated: a node of alpha 0 contributes no op, neither its body nor
\* its descendants nor its shadow, wherever it is reached from.
C10_TransparentNodeContributesNothing ==
    \A state \in AllStates : TransparentPlaces(state) = {}

\* C10, amended: a node of alpha 0 reached through deferNodePropsAndOps (a
\* root node, a child drawn in order, a z-child, a projected child) or as
\* the caster of deferShadow contributes no op, at whatever depth; the node
\* of a layer-update entry is not tested, and the ops of its display list
\* go to the builder of its layer whatever its alpha is.
C10_TransparentNodeRejectedUnlessLayerEntry ==
    \A state \in AllStates :
        \A i \in TransparentPlaces(state) :
            /\ i = 1
            /\ state.path.entry >= 0
            /\ state.path.nodes[1] = LayerEntry(state.path.entry).renderNode

\* the frame is built with ops in it, and a z-child of alpha 0 that has a
\* display list was reached, shadow and body, inside a node that is drawn
C10_Witness ==
    /\ Done
    /\ AllStates # {}
    /\ \E p \in Bodies :
           /\ Places("shadow", log[p].inst, log[p].opIndex) # {}
           /\ renderNodes[log[p].node].alpha = 0
           /\ ~renderNodes[log[p].node].nothingToDraw
           /\ renderNodes[log[p].parent].alpha > 0

----------------------------------------------------------------------------
(* Properties of the constructor on degenerate input *)

NothingToBuild == layers = <<>> /\ nodes = <<>>

\* C11: with an empty layer-update queue and no root node the constructor
\* leaves exactly one builder, the primary one at index 0, with no batch,
\* and the layer stack <<0>>.
C11_EmptyInputOnePrimaryBuilder ==
    (Constructed /\ NothingToBuild)
        => /\ Len(mLayerBuilders) = 1
           /\ mLayerBuilders[1].batches = <<>>
           /\ mLayerBuilders[1].beginLayerOp = NoOp
           /\ mLayerBuilders[1].renderNode = 0
           /\ mLayerStack = <<0>>

\* the constructor has returned from an empty queue and an empty node list
C11_Witness == Done /\ NothingToBuild

----------------------------------------------------------------------------
(* Properties of the alpha of the baked ops *)

\* the product of the alphas of the nodes seq[1 .. n], as scaleAlpha
\* composes them; only the nodes at the places in counted are taken
RECURSIVE AlphaProduct(_, _, _)
AlphaProduct(seq, n, counted) ==
    IF n = 0 THEN AlphaOne
    ELSE IF n \in counted
         THEN (AlphaProduct(seq, n - 1, counted) * renderNodes[seq[n]].alpha) \div AlphaOne
         ELSE AlphaProduct(seq, n - 1, counted)

\* a node whose alpha goes into the snapshot: below 1, and either a layer
\* or without overlapping rendering
ScalesAlpha(n) ==
    /\ renderNodes[n].alpha < AlphaOne
    /\ renderNodes[n].isLayer \/ ~renderNodes[n].hasOverlappingRendering

\* the nodes of the path of a state whose properties were applied before
\* the state was baked: not the caster of a shadow, which is baked in the
\* state of its parent
AppliedNodes(state) ==
    IF state.opId = "ShadowOp"
    THEN SubSeq(state.path.nodes, 1, Len(state.path.nodes) - 1)
    ELSE state.path.nodes

IsDirect(state) == state.opId \in {"CopyToLayerOp", "CopyFromLayerOp", "SimpleRectsOp"}

\* C12 as stated: the alpha of every baked op is the product of the alphas
\* of all the nodes from the root to the node of the op, times the alpha of
\* the paint of the op.
C12_AlphaIsProductOfAllAncestors ==
    \A state \in AllStates :
        state.alpha * NoPaint.alpha =
            AlphaProduct(state.path.nodes, Len(state.path.nodes),
                         DOMAIN state.path.nodes)
                * state.op.paint.alpha

\* C12, amended: the alpha of a state baked against the snapshot is the
\* alpha of the snapshot, the product of the alphas of the nodes on the
\* path that scale it: those with alpha below 1 that are a layer or have no
\* overlapping rendering.  A node with alpha below 1 that is drawn through a
\* temporary save-layer, the node of a layer-update entry, the caster of a
\* shadow and the paint of the op put no factor in; the states made by
\* directConstruct have alpha 1.
C12_AlphaIsProductOfScalingAncestors ==
    \A state \in AllStates :
        IF IsDirect(state) THEN state.alpha = AlphaOne
        ELSE state.alpha =
                 AlphaProduct(AppliedNodes(state), Len(AppliedNodes(state)),
                              {k \in DOMAIN AppliedNodes(state) :
                                  /\ ScalesAlpha(AppliedNodes(state)[k])
                                  /\ ~(k = 1 /\ state.path.entry >= 0)})

\* an op below a node that scales the alpha and a node drawn through a
\* temporary save-layer, and an op with a translucent paint
C12_Witness ==
    /\ \E state \in AllStates :
           /\ state.alpha = AlphaOne \div 2
           /\ \E i, j \in 1 .. Len(state.path.nodes) :
                  /\ ScalesAlpha(state.path.nodes[i])
                  /\ renderNodes[state.path.nodes[j]].alpha < AlphaOne
                  /\ renderNodes[state.path.nodes[j]].alpha > 0
                  /\ ~ScalesAlpha(state.path.nodes[j])

----------------------------------------------------------------------------
(* Properties of the unclipped save-layers *)

\* the places of what builder lb received that hold an op of the given type
ReceivedOps(lb, opId) ==
    {i \in 1 .. Len(lb.received) :
        lb.received[i].kind = "op" /\ lb.received[i].opId = opId}

\* the place at which builder lb received the copy-to op of a layer handle
CopyToOf(lb, layer) ==
    {a \in ReceivedOps(lb, "CopyToLayerOp") : lb.received[a].layer = layer}

\* C13: a builder that receives the CopyFromLayer op of an unclipped
\* save-layer has received before it, in this order, the CopyToLayer op of
\* the same layer handle and the same dstRect, right after it the pending
\* clear of dstRect, and then what was deferred between the pair, the pairs
\* opened in between being closed in between.  The copy-from state waits on
\* the stack of the builder that received the copy-to op.
C13_UnclippedLayerOrder ==
    \A k \in 1 .. Len(mLayerBuilders) :
        LET lb == mLayerBuilders[k]
            got == lb.received
        IN  /\ \A c \in ReceivedOps(lb, "CopyFromLayerOp") :
                   \E a \in CopyToOf(lb, got[c].layer) :
                       /\ a + 1 < c
                       /\ got[a].rect = got[c].rect
                       /\ got[a].batchId = "CopyToLayer"
                       /\ got[c].batchId = "CopyFromLayer"
                       /\ got[a + 1].kind = "clear"
                       /\ got[a + 1].rect = got[a].rect
                       /\ \A b \in ReceivedOps(lb, "CopyToLayerOp") :
                              (a < b /\ b < c)
                                  => \E d \in ReceivedOps(lb, "CopyFromLayerOp") :
                                         b < d /\ d < c /\ got[d].layer = got[b].layer
            /\ \A i \in 1 .. Len(lb.activeUnclippedSaveLayers) :
                   /\ lb.activeUnclippedSaveLayers[i].opId = "CopyFromLayerOp"
                   /\ CopyToOf(lb, lb.activeUnclippedSaveLayers[i].layer) # {}

\* an unclipped save-layer inside another one, both closed, in one builder
C13_Witness ==
    \E k \in 1 .. Len(mLayerBuilders) :
        \E a, b, c, d \in 1 .. Len(mLayerBuilders[k].received) :
            /\ a < b /\ b < c /\ c < d
            /\ a \in ReceivedOps(mLayerBuilders[k], "CopyToLayerOp")
            /\ b \in ReceivedOps(mLayerBuilders[k], "CopyToLayerOp")
            /\ c \in ReceivedOps(mLayerBuilders[k], "CopyFromLayerOp")
            /\ d \in ReceivedOps(mLayerBuilders[k], "CopyFromLayerOp")
            /\ mLayerBuilders[k].received[a].layer = mLayerBuilders[k].received[d].layer

\* C14: an EndUnclippedLayerOp met while the current layer builder has no
\* active unclipped save-layer aborts the build; no op is deferred and neither
\* the layer stack nor the snapshot stack is popped
C14_EndUnclippedWithoutBeginAborts ==
    [][(AtOp("EndUnclippedLayerOp")
         /\ currentLayer(FB).activeUnclippedSaveLayers = <<>>)
        => /\ stack' = Aborted
           /\ UNCHANGED <<mLayerBuilders, mLayerStack, mCanvasState>>]_vars

\* the build was aborted inside a clipped save-layer although a builder
\* further down still has an unclipped save-layer open
C14_Witness ==
    /\ stack = Aborted
    /\ Len(mLayerStack) > 1
    /\ currentLayer(FB).activeUnclippedSaveLayers = <<>>
    /\ \E i \in 1 .. Len(mLayerBuilders) : mLayerBuilders[i].activeUnclippedSaveLayers # <<>>

\* C15: an EndLayerOp met while no clipped save-layer is open (only the
\* primary index on the layer stack, or a current builder without beginLayerOp)
\* aborts the build; the layer stack and the snapshot stack are not popped
C15_EndLayerWithoutBeginAborts ==
    [][(AtOp("EndLayerOp")
         /\ (Len(mLayerStack) = 1 \/ currentLayer(FB).beginLayerOp = NoOp))
        => /\ stack' = Aborted
           /\ UNCHANGED <<mLayerStack, mCanvasState>>]_vars

\* C16 as stated: every baked op held by a builder, in a batch or on its
\* stack of active unclipped save-layers, has non-empty clipped bounds: an op
\* whose bounds resolve to nothing leaves no state behind, the copy-to and
\* copy-from ops of an unclipped save-layer outside the clip included.
C16_HeldStatesHaveBounds ==
    \A state \in AllStates : ~isEmpty(state.clippedBounds)

\* C16: every held state that came out of a bake has non-empty clipped
\* bounds; the states constructed directly (the copy-to, clear and copy-from
\* ops of an unclipped save-layer) are held whatever their rect is, and the
\* copy-to and copy-from states of one save-layer hold the same rect
C16_BakedStatesHaveBounds ==
    /\ \A state \in AllStates : IsDirect(state) \/ ~isEmpty(state.clippedBounds)
    /\ \A from \in {st \in AllStates : st.opId = "CopyFromLayerOp"} :
           \E to \in AllStates :
               /\ to.opId = "CopyToLayerOp"
               /\ to.layer = from.layer
               /\ to.clippedBounds = from.clippedBounds

\* an unclipped save-layer outside the clip left its copy-to and copy-from
\* states in the builder, and the rect outside the clip drawn in it left none
C16_Witness ==
    /\ Done
    /\ \E to, from \in AllStates :
           /\ to.opId = "CopyToLayerOp" /\ from.opId = "CopyFromLayerOp"
           /\ to.layer = from.layer
           /\ isEmpty(to.clippedBounds)
    /\ \E i \in 1 .. Len(log) :
           /\ log[i].ev = "op"
           /\ displayListOf(log[i].node).ops[log[i].opIndex + 1] =
                  RectOp(RectOff, Paint(FALSE, FALSE))
    /\ \A state \in AllStates : state.opId = "RectOp" => ~isEmpty(state.clippedBounds)

\* an EndLayerOp is about to be handled, met in a display list or issued
\* for the save-layer of a node (line 176)
OnEndLayer ==
    AtOp("EndLayerOp") \/ Running("deferNodePropsAndOps", "endLayer")

\* what builder k is handed by the step
NewlyReceived(k) ==
    SubSeq(mLayerBuilders'[k].received, Len(mLayerBuilders[k].received) + 1,
           Len(mLayerBuilders'[k].received))

\* C17: on EndLayerOp the finished builder is popped first; the LayerOp that
\* draws it, baked against the snapshot of the parent, is deferred unmergeable
\* on batch Bitmap into the builder that was directly below on the layer
\* stack, and names the finished builder; nothing is deferred into the
\* finished builder, and a rejected LayerOp is deferred nowhere
C17_LayerOpGoesToBuilderBelow ==
    [][OnEndLayer =>
        LET finished == mLayerStack[Len(mLayerStack)]
            below == mLayerStack[Len(mLayerStack) - 1]
            parentSnapshot == mCanvasState[Len(mCanvasState) - 1]
            drawLayerOp == LayerOpOf(mLayerBuilders[finished + 1].beginLayerOp)
            bounds == BakedBounds(parentSnapshot, drawLayerOp, 0)
            new == NewlyReceived(below + 1)
        IN  /\ Len(mLayerStack) > 1
            /\ mLayerStack' = Front(mLayerStack)
            /\ mCanvasState' = Front(mCanvasState)
            /\ Len(mLayerBuilders') = Len(mLayerBuilders)
            /\ \A k \in 1 .. Len(mLayerBuilders) :
                   k # below + 1 => NewlyReceived(k) = <<>>
            /\ IF isEmpty(bounds) THEN new = <<>>
               ELSE /\ new # <<>>
                    /\ Last(new) = Received("op", "LayerOp", bounds, finished, "Bitmap")
                    /\ \A i \in 1 .. Len(new) - 1 : new[i].opId = "SimpleRectsOp"]_vars

\* a LayerOp naming an inner save-layer was deferred into the builder of the
\* save-layer around it; another followed the pending clear of its builder
C17_Witness ==
    /\ Constructed
    /\ \E k \in 2 .. Len(mLayerBuilders) :
           LET got == mLayerBuilders[k].received
           IN  \E i \in 1 .. Len(got) : got[i].opId = "LayerOp" /\ got[i].layer > k - 1
    /\ \E k \in 1 .. Len(mLayerBuilders) :
           LET got == mLayerBuilders[k].received
           IN  \E i \in 2 .. Len(got) :
                   got[i].opId = "LayerOp" /\ got[i - 1].opId = "SimpleRectsOp"

\* C18: when the LayerOp of a finished clipped save-layer is rejected, the
\* finished builder is left without batches and stays so, the builder below
\* and every other builder keep their batches, and the build goes on
C18_RejectedLayerIsCleared ==
    /\ [][OnEndLayer =>
            LET finished == mLayerStack[Len(mLayerStack)]
                parentSnapshot == mCanvasState[Len(mCanvasState) - 1]
                drawLayerOp == LayerOpOf(mLayerBuilders[finished + 1].beginLayerOp)
            IN  isEmpty(BakedBounds(parentSnapshot, drawLayerOp, 0)) =>
                    /\ mLayerBuilders'[finished + 1].batches = <<>>
                    /\ \A k \in 1 .. Len(mLayerBuilders) :
                           k # finished + 1 =>
                               mLayerBuilders'[k].batches = mLayerBuilders[k].batches
                    /\ finished \in cleared'
                    /\ stack' \notin {Crashed, Aborted}]_vars
    /\ [](\A k \in cleared : mLayerBuilders[k + 1].batches = <<>>)

\* a save-layer that had been handed ops was finished and cleared, while the
\* builder below holds ops
C18_Witness ==
    /\ Constructed
    /\ \E k \in cleared :
           /\ mLayerBuilders[k + 1].received # <<>>
           /\ mLayerBuilders[k + 1].batches = <<>>
           /\ mLayerBuilders[k + 1].beginLayerOp # NoOp
    /\ mLayerBuilders[1].batches # <<>>

\* the states of the given op types that are held in a batch, each with the
\* id of its batch
Batches ==
    UNION {{mLayerBuilders[k].batches[i] : i \in 1 .. Len(mLayerBuilders[k].batches)} :
           k \in 1 .. Len(mLayerBuilders)}
BatchedAs(opIds) ==
    UNION {{<<batch.batchId, batch.ops[j]>> :
               j \in {i \in 1 .. Len(batch.ops) : batch.ops[i].opId \in opIds}} :
           batch \in Batches}

\* the batch id the paint of an op asks for
PaintBatchId(op) ==
    IF op.paint.pathEffect THEN "AlphaMaskTexture"
    ELSE IF op.paint.antiAlias THEN "AlphaVertices" ELSE "Vertices"

\* every op of the given types was handed over unmergeable
HandedOverUnmergeable(opIds) ==
    \A k \in 1 .. Len(mLayerBuilders) :
        \A i \in 1 .. Len(mLayerBuilders[k].received) :
            mLayerBuilders[k].received[i].opId \in opIds =>
                mLayerBuilders[k].received[i].kind = "op"

\* C19 as stated: each rect, round-rect, oval, arc and path op is deferred
\* unmergeable on AlphaMaskTexture if its paint has a path effect, else on
\* AlphaVertices if the paint is anti-aliased, else on Vertices.
C19_ShapesBatchedByPaint ==
    /\ \A held \in BatchedAs(ShapeOpIds) : held[1] = PaintBatchId(held[2].op)
    /\ HandedOverUnmergeable(ShapeOpIds)

\* C19: each rect, round-rect, oval and arc op is deferred unmergeable on
\* AlphaMaskTexture if its paint has a path effect, else on AlphaVertices if
\* the paint is anti-aliased, else on Vertices; a path op is deferred
\* unmergeable on Bitmap whatever its paint
C19_TessellatedShapesBatchedByPaint ==
    /\ \A held \in BatchedAs(ShapeOpIds \ {"PathOp"}) : held[1] = PaintBatchId(held[2].op)
    /\ \A held \in BatchedAs({"PathOp"}) : held[1] = "Bitmap"
    /\ HandedOverUnmergeable(ShapeOpIds)

\* an arc and a path, both with an anti-aliased path-effect paint, were
\* deferred: the arc on AlphaMaskTexture, the path on Bitmap
C19_Witness ==
    /\ Done
    /\ \E arc, path \in BatchedAs(ShapeOpIds) :
           /\ arc[2].opId = "ArcOp" /\ arc[2].op.paint = Paint(TRUE, TRUE)
           /\ arc[1] = "AlphaMaskTexture"
           /\ path[2].opId = "PathOp" /\ path[2].op.paint = Paint(TRUE, TRUE)
           /\ path[1] = "Bitmap"

\* the merge conditions of a bitmap op; no clip state at all counts as a
\* rectangular clip
BitmapMayMerge(op) ==
    /\ op.bitmap.transform \in {"Translate", "Simple"}
    /\ op.bitmap.xfermode = "SrcOver"
    /\ ~op.bitmap.alpha8
    /\ op.bitmap.clipState \in {"null", "Rectangle"}

\* C20: a bitmap op that is not rejected is deferred on batch Bitmap: as
\* mergeable, with the generation id of its bitmap as merge id, if and only if
\* its baked transform is simple and positive-scaled, its xfermode is
\* src-over, its bitmap is not A8 and its clip is rectangular, and as
\* unmergeable in every other case
C20_BitmapMergeableIffConditions ==
    \A batch \in Batches :
        \A j \in 1 .. Len(batch.ops) :
            batch.ops[j].opId = "BitmapOp" =>
                /\ batch.batchId = "Bitmap"
                /\ batch.merging <=> BitmapMayMerge(batch.ops[j].op)
                /\ batch.merging => batch.mergeId = batch.ops[j].op.bitmap.generationId

\* the op about to be handled is a bitmap, patch or text op that is not
\* rejected and meets every merge condition but the one on its clip
AtMergeCandidate ==
    /\ AtOp("BitmapOp") \/ AtOp("PatchOp") \/ AtOp("TextOp")
    /\ ~isEmpty(BakedBounds(currentSnapshot(FB), currentOp, 0))
    /\ currentOp.bitmap.xfermode = "SrcOver"
    /\ IF currentOp.opId = "BitmapOp"
       THEN currentOp.bitmap.transform \in {"Translate", "Simple"} /\ ~currentOp.bitmap.alpha8
       ELSE currentOp.bitmap.transform = "Translate"

\* C21: a bitmap, patch or text op without clip state that meets the other
\* merge conditions is handed to its builder as mergeable, and the build goes
\* on with the next op: the predicate on the clip is true for it and reads
\* nothing through the null clip state
C21_NullClipStateIsMergeable ==
    [][(AtMergeCandidate /\ currentOp.bitmap.clipState = "null") =>
          /\ stack' = AfterOp(stack, top)
          /\ LET new == NewlyReceived(currentLayerIndex(FB) + 1)
             IN  new # <<>> /\ Last(new).kind = "mergeable"]_vars

\* C22: a patch op that is not rejected is deferred as mergeable on
\* MergedPatch, with the generation id of its bitmap as merge id, if and only
\* if its baked transform is a pure translation, its xfermode is src-over and
\* its clip is rectangular, and as unmergeable on Bitmap in every other case
C22_PatchMergeableIffConditions ==
    \A batch \in Batches :
        \A j \in 1 .. Len(batch.ops) :
            batch.ops[j].opId = "PatchOp" =>
                LET op == batch.ops[j].op
                    mayMerge == /\ op.bitmap.transform = "Translate"
                                /\ op.bitmap.xfermode = "SrcOver"
                                /\ op.bitmap.clipState \in {"null", "Rectangle"}
                IN  /\ batch.merging <=> mayMerge
                    /\ batch.batchId = IF mayMerge THEN "MergedPatch" ELSE "Bitmap"
                    /\ batch.merging => batch.mergeId = op.bitmap.generationId


\* The nodes a display list draws.
DrawnBy(displayList) == {displayList.children[i] : i \in 1 .. Len(displayList.children)}
\* The nodes whose synced display list draws n.
SyncedParents(n) == {p \in TreeNodeIds : n \in DrawnBy(hierarchy[p].mDisplayList)}

\* C23: hasParents() reflects only synced display lists: a node has parents
\* exactly when the synced display list of some node draws it (so a root no
\* node draws has none, and a child of a synced list has some), and recording
\* a new display list for a node changes no node's hasParents(); only the
\* next sync of the hierarchy does, after which a child the new list left out
\* and no other synced list draws has no parents.
C23_HasParentsReflectsSyncedLists ==
    /\ [](\A n \in TreeNodeIds : hasParents(hierarchy, n) <=> SyncedParents(n) # {})
    /\ [][(\E n \in TreeNodeIds :
               hierarchy'[n].mStagingDisplayList # hierarchy[n].mStagingDisplayList
               /\ ~hierarchy'[n].mStagingDisplayList.null)
           => \A m \in TreeNodeIds :
                  /\ hierarchy'[m].mParentCount = hierarchy[m].mParentCount
                  /\ hierarchy'[m].mDisplayList = hierarchy[m].mDisplayList]_vars

\* The parent's synced list draws a child, the parent was re-recorded without
\* it, the hierarchy was not synced since, and the child still has parents.
C23_Witness ==
    \E p \in TreeNodeIds : \E c \in DrawnBy(hierarchy[p].mDisplayList) :
        /\ ~hierarchy[p].mStagingDisplayList.null
        /\ c \notin DrawnBy(hierarchy[p].mStagingDisplayList)
        /\ SyncedParents(c) = {p}
        /\ hasParents(hierarchy, c)

\* deferNodePropsAndOps is at a node that holds a persistent layer and that
\* its properties do not reject
AtLayerNode ==
    /\ Running("deferNodePropsAndOps", "start")
    /\ renderNodes[top.node].hasLayer
    /\ ~NodeRejected(renderNodes[top.node])

\* C24: for a non-rejected node with a persistent layer the traversal hands
\* the current builder at most one op for the node, a LayerOp deferred
\* unmergeable on batch Bitmap (none only if the LayerOp is clipped out), and
\* returns without calling deferNodeOps: no op, child or shadow of the node
\* is dispatched, no builder is created and no other builder is touched.  (A
\* clear that was pending in the builder is flushed before the LayerOp.)
C24_LayerNodeDefersOnlyLayerOp ==
    [][AtLayerNode =>
        LET k == currentLayerIndex(FB) + 1
            new == SelectSeq(NewlyReceived(k), LAMBDA e : e.opId # "SimpleRectsOp")
            drawLayerOp == NodeLayerOp(renderNodes[top.node])
        IN  /\ stack' = Pop(stack)
            /\ log' = log
            /\ mLayerStack' = mLayerStack
            /\ Len(mLayerBuilders') = Len(mLayerBuilders)
            /\ \A j \in 1 .. Len(mLayerBuilders) :
                   j # k => mLayerBuilders'[j] = mLayerBuilders[j]
            /\ Len(new) <= 1
            /\ new = <<>> <=> isEmpty(BakedBounds(Last(mCanvasState'), drawLayerOp, 0))
            /\ \A i \in 1 .. Len(new) :
                   /\ new[i].kind = "op"
                   /\ new[i].opId = "LayerOp"
                   /\ new[i].batchId = "Bitmap"
                   /\ new[i].layer = -1]_vars

\* A builder holds the LayerOp of a node with a persistent layer whose
\* display list has ops of its own, and none of these ops is in that builder.
C24_Witness ==
    /\ Constructed
    /\ \E k \in 1 .. Len(mLayerBuilders) : \E state \in StatesOf(mLayerBuilders[k]) :
           /\ state.opId = "LayerOp"
           /\ state.layer = -1
           /\ LET n == Last(state.path.nodes)
              IN  /\ renderNodes[n].hasLayer
                  /\ ~renderNodes[n].displayList.isNull
                  /\ renderNodes[n].displayList.ops # <<>>
                  /\ \A other \in StatesOf(mLayerBuilders[k]) :
                         other.path.nodes = <<>> \/ Last(other.path.nodes) # n
                         \/ other = state

\* the verbs a parse of the arguments of the call produces
VerbsOf(call) ==
    getPathDataFromString(EmptyPathData, call.isNull, call.pathStr, call.strLen).verbs

\* C25: parseStringForSkPath returns false exactly when the parse produced
\* no verbs, which is exactly when pathStr is null or the empty string;
\* otherwise it returns true.  When it returns false the SkPath is the one
\* that was passed in, and when it returns true it is built from the verbs.
C25_FalseIffNoVerbs ==
    /\ [](parser.called = "parseStringForSkPath" =>
            /\ ~parser.result <=> VerbsOf(parser) = <<>>
            /\ ~parser.result <=> (parser.isNull \/ parser.pathStr = <<>>))
    /\ [][parser'.called = "parseStringForSkPath" =>
            /\ ~parser'.result => parser'.skPath = parser.skPath
            /\ parser'.result => parser'.skPath # parser.skPath]_vars

\* The call was handed the empty string and refused it, leaving the path.
C25_Witness ==
    /\ parser.called = "parseStringForSkPath"
    /\ ~parser.isNull
    /\ parser.pathStr = <<>>
    /\ ~parser.result
    /\ parser.skPath = EarlierPath

\* The save-stack depths that calls in progress took on entry: frame f is a
\* deferRenderNodeOpImpl past its save, a deferProjectedChildren past its
\* save, or the latter inside the iteration of one projected child.
EntryDepths(f) ==
    (IF f.fn = "deferRenderNodeOpImpl" /\ f.pc = "restore" THEN {f.count} ELSE {})
        \cup (IF f.fn = "deferProjectedChildren" /\ f.pc \in {"loop", "restore"}
              THEN {f.count} ELSE {})
        \cup (IF f.fn = "deferProjectedChildren" /\ f.pc = "restore"
              THEN {f.restoreTo} ELSE {})

\* the snapshots up to depth d
Saved(cs, d) == SubSeq(cs, 1, d)

\* C26: a deferRenderNodeOp, a projected child and deferProjectedChildren
\* leave the save stack as they found it: no step taken while the call is in
\* progress changes a snapshot that was on the stack when it was entered,
\* and the step that returns from it leaves exactly those snapshots, for a
\* child that is drawn, rejected, drawn from its layer or through a temporary
\* save-layer; a child with nothing to draw or with skipInOrderDraw returns
\* in one step that leaves the canvas state alone.
C26_RenderNodeOpKeepsCanvasState ==
    [][/\ \A i \in 1 .. Len(stack) : \A d \in EntryDepths(stack[i]) :
              /\ Len(mCanvasState) >= d
              /\ Len(mCanvasState') >= d
              /\ Saved(mCanvasState', d) = Saved(mCanvasState, d)
       /\ Running("deferRenderNodeOpImpl", "restore") =>
              mCanvasState' = Saved(mCanvasState, top.count)
       /\ Running("deferProjectedChildren", "restore") =>
              mCanvasState' = Saved(mCanvasState, top.restoreTo)
       /\ (Running("deferProjectedChildren", "loop")
             /\ top.i >= Len(renderNodes[top.node].mProjectedNodes)) =>
              mCanvasState' = Saved(mCanvasState, top.count)
       /\ (Running("deferRenderNodeOpImpl", "start")
             /\ renderNodes[renderNodeOf(top.op)].nothingToDraw) =>
              mCanvasState' = mCanvasState /\ stack' = Pop(stack)
       /\ AtOp("RenderNodeOp") => mCanvasState' = mCanvasState
       /\ Running("deferNodeOps", "afterChild") => mCanvasState' = mCanvasState]_vars

\* The in-order child of the op has just returned; it was drawn through a
\* temporary save-layer, which took a snapshot and a builder of its own.
C26_Witness ==
    /\ Running("deferNodeOps", "afterChild")
    /\ LET child == renderNodes[currentOp.renderNode]
       IN  /\ child.alpha < AlphaOne
           /\ child.alpha > 0
           /\ child.hasOverlappingRendering
           /\ ~child.hasLayer
    /\ \E k \in 1 .. Len(mLayerBuilders) : \E state \in StatesOf(mLayerBuilders[k]) :
           /\ state.opId = "LayerOp"
           /\ state.path.nodes # <<>>
           /\ Last(state.path.nodes) = currentOp.renderNode

\* the children of a chunk that are drawn where their RenderNodeOp stands:
\* not z-children of the chunk, and not projecting backwards
InOrderChildrenOf(parent, chunkIndex) ==
    {c \in ChunkRange(parent, chunkIndex) :
        /\ displayListOf(parent).ops[c + 1].opId = "RenderNodeOp"
        /\ c \notin ZChildrenOf(parent, chunkIndex)
        /\ ~renderNodes[renderNodeOf(<<parent, c>>)].projectBackwards}

\* C27: in one traversal of a chunk, defer3dChildren defers the body of a
\* z-child of the chunk (z other than 0, chunk reordering) at most once and
\* of no other child; every op of the range is dispatched at most once; the
\* RenderNodeOp of a z-child is skipped when it is dispatched, and the
\* RenderNodeOp of any other child that does not project backwards (one with
\* z other than 0 in a chunk that does not reorder included) calls
\* deferRenderNodeOpImpl for it; once the frame is built each of these
\* children of every chunk entered has had its body deferred exactly once.
C27_EachChildBodyDeferredOnce ==
    /\ [](/\ \A p \in Bodies :
                /\ log[p].opIndex \in ZChildrenOf(log[p].parent, log[p].chunk)
                /\ Places("body", log[p].inst, log[p].opIndex) = {p}
          /\ \A p \in 1 .. Len(log) :
                log[p].ev = "op" => Places("op", log[p].inst, log[p].opIndex) = {p}
          /\ Done => \A p \in ChunksEntered :
                /\ \A c \in ZChildrenOf(log[p].parent, log[p].chunk) :
                       Cardinality(Places("body", log[p].inst, c)) = 1
                /\ \A c \in InOrderChildrenOf(log[p].parent, log[p].chunk) :
                       Cardinality(Places("op", log[p].inst, c)) = 1)
    /\ [][AtOp("RenderNodeOp") =>
            /\ top.opIndex \in ZChildrenOf(top.node, top.chunk)
                   => stack' = AfterOp(stack, top)
            /\ top.opIndex \in InOrderChildrenOf(top.node, top.chunk)
                   => /\ Len(stack') = Len(stack) + 1
                      /\ Last(stack').fn = "deferRenderNodeOpImpl"
                      /\ Last(stack').op = <<top.node, top.opIndex>>]_vars

\* The frame is built; one chunk reordered and deferred a z-child through
\* defer3dChildren, another did not reorder and dispatched the RenderNodeOp
\* of a child with z other than 0 in order.
C27_Witness ==
    /\ Done
    /\ Bodies # {}
    /\ \E p \in 1 .. Len(log) :
           /\ log[p].ev = "op"
           /\ log[p].opIndex \in InOrderChildrenOf(log[p].parent, log[p].chunk)
           /\ ZOf(log[p].parent, log[p].opIndex) # 0

\* the places of the log at which a projected child was deferred
Projected == {p \in 1 .. Len(log) : log[p].ev = "projected"}
\* the places at which the chunk traversal inst dispatched an op
Dispatched(inst) == {p \in 1 .. Len(log) : log[p].ev = "op" /\ log[p].inst = inst}
\* the place of the last op the chunk traversal of place p dispatched before p
LastDispatchBefore(p) ==
    LET before == {r \in Dispatched(log[p].inst) : r < p}
    IN  IF before = {} THEN 0 ELSE CHOOSE r \in before : \A q \in before : q <= r

\* C28: a projected child is deferred only in the traversal of a node with
\* a non-empty projected-node list and a projection-receive index, once, in
\* the order of the list, after the op at the receive index was dispatched
\* and before any later op of the chunk is; once the frame is built, every
\* traversal that dispatched the op at the receive index of such a node has
\* deferred every projected child of the list.
C28_ProjectedChildrenAfterReceiver ==
    /\ \A p \in Projected :
           LET node == renderNodes[log[p].parent]
               receive == node.displayList.projectionReceiveIndex
           IN  /\ node.mProjectedNodes # <<>>
               /\ receive >= 0
               /\ log[p].idx < Len(node.mProjectedNodes)
               /\ log[p].opIndex = node.mProjectedNodes[log[p].idx + 1].op[2]
               /\ LastDispatchBefore(p) # 0
               /\ log[LastDispatchBefore(p)].opIndex = receive
               /\ \A q \in Projected :
                      log[q].inst = log[p].inst =>
                          /\ q < p <=> log[q].idx < log[p].idx
                          /\ log[q].idx = log[p].idx => q = p
    /\ \A r \in 1 .. Len(log) :
           LET node == renderNodes[log[r].parent]
               receive == node.displayList.projectionReceiveIndex
               deferred == {log[q].idx : q \in {x \in Projected :
                                                   x > r /\ log[x].inst = log[r].inst}}
           IN  (/\ log[r].ev = "op"
                /\ node.mProjectedNodes # <<>>
                /\ receive >= 0
                /\ log[r].opIndex = receive
                /\ Done \/ \E q \in Dispatched(log[r].inst) : q > r)
                   => deferred = 0 .. Len(node.mProjectedNodes) - 1

\* Two projected children were deferred in the order of the list, which is
\* not the order of their ops, and the traversal went on to the next op.
C28_Witness ==
    \E p, q \in Projected :
        /\ p < q
        /\ log[p].inst = log[q].inst
        /\ log[p].opIndex > log[q].opIndex
        /\ \E r \in Dispatched(log[p].inst) : r > q

\* a layer-update entry is being processed: the constructor waits at line 67
InLayerEntry == stack # <<>> /\ stack[1].fn = "FrameBuilder" /\ stack[1].pc = "layerRestore"

\* C29: a layer-update entry starts from the layer stack [0] and the root
\* snapshot, pushes one snapshot and appends one builder, which it puts on
\* the layer stack; while the entry is processed no builder that was there
\* before it (the primary builder, the builders of the other entries) is
\* changed, so whatever is deferred goes to the builders created since; the
\* entry ends by popping one snapshot and one layer, which leaves the layer
\* stack [0] and the root snapshot.
C29_LayerEntryIsSelfContained ==
    [][/\ Running("FrameBuilder", "layers") =>
              /\ mLayerStack = <<0>>
              /\ mCanvasState = initializeSaveStack(clip)
              /\ Len(mCanvasState') = Len(mCanvasState) + 1
              /\ Front(mCanvasState') = mCanvasState
              /\ Len(mLayerBuilders') = Len(mLayerBuilders) + 1
              /\ Front(mLayerBuilders') = mLayerBuilders
              /\ Last(mLayerBuilders').renderNode = LayerEntry(top.i).renderNode
              /\ mLayerStack' = <<0, Len(mLayerBuilders)>>
       /\ InLayerEntry =>
              /\ Len(mLayerStack) >= 2
              /\ mLayerStack[1] = 0
              /\ Len(mLayerBuilders') >= Len(mLayerBuilders)
              /\ \A k \in 1 .. mLayerStack[2] : mLayerBuilders'[k] = mLayerBuilders[k]
       /\ Running("FrameBuilder", "layerRestore") =>
              /\ Len(mCanvasState') = Len(mCanvasState) - 1
              /\ Len(mLayerStack') = Len(mLayerStack) - 1
              /\ mLayerBuilders' = mLayerBuilders
              /\ mLayerStack' = <<0>>
              /\ mCanvasState' = initializeSaveStack(clip)]_vars

\* An entry has been processed and another one is next: the first deferred
\* ops into its own builder, opened a save-layer with a builder of its own,
\* and left the primary builder empty and the layer stack at [0].
C29_Witness ==
    /\ Running("FrameBuilder", "layers")
    /\ Len(mLayerBuilders) >= 3
    /\ mLayerBuilders[2].batches # <<>>
    /\ mLayerBuilders[3].beginLayerOp # NoOp
    /\ mLayerBuilders[1].batches = <<>>
    /\ mLayerStack = <<0>>

\* C30: the builder deferBeginLayerOp creates for a BeginLayerOp with
\* unmapped bounds of size w x h has 0 <= width <= w and 0 <= height <= h
\* and the repaint rect (0, 0, width, height), and the new snapshot is
\* translated by (-left, -top) of the clipped bounds, whatever the clip of
\* the parent render target, one that misses the layer's bounds included.
C30_LayerSizeWithinBounds ==
    [][AtOp("BeginLayerOp") =>
        LET created == Last(mLayerBuilders')
            saveLayerBounds == ClippedSaveLayerBounds(FB, currentOp)
        IN  /\ Len(mLayerBuilders') = Len(mLayerBuilders) + 1
            /\ 0 <= created.width
            /\ created.width <= getWidth(currentOp.unmappedBounds)
            /\ 0 <= created.height
            /\ created.height <= getHeight(currentOp.unmappedBounds)
            /\ created.repaintRect = Rect(0, 0, created.width, created.height)
            /\ Last(mCanvasState').transform
                   = Translate(0 - saveLayerBounds.left, 0 - saveLayerBounds.top)]_vars

----------------------------------------------------------------------------
\* the layer handles of the copy-from states stashed in builder lb, bottom up
StashedHandles(lb) ==
    [i \in 1 .. Len(lb.activeUnclippedSaveLayers) |-> lb.activeUnclippedSaveLayers[i].layer]

\* the layer handles builder lb began (copy-to deferred) and has not ended
OpenHandles(lb) ==
    {lb.received[a].layer : a \in ReceivedOps(lb, "CopyToLayerOp")}
        \ {lb.received[c].layer : c \in ReceivedOps(lb, "CopyFromLayerOp")}

\* in every state the stack of a builder holds, oldest first, exactly the
\* unclipped save-layers the builder began and has not ended, and no
\* copy-from op was emitted twice
StashIsOpenLayers ==
    \A k \in 1 .. Len(mLayerBuilders) :
        LET lb == mLayerBuilders[k]
            handles == StashedHandles(lb)
        IN  /\ \A i, j \in 1 .. Len(handles) : i < j => handles[i] < handles[j]
            /\ {handles[i] : i \in 1 .. Len(handles)} = OpenHandles(lb)
            /\ \A c, d \in ReceivedOps(lb, "CopyFromLayerOp") :
                   lb.received[c].layer = lb.received[d].layer => c = d
            /\ \A c \in ReceivedOps(lb, "CopyFromLayerOp") :
                   \A j \in 1 .. Len(mLayerBuilders) :
                       j # k => CopyToOf(mLayerBuilders[j], lb.received[c].layer) = {}

\* an EndUnclippedLayerOp that finds a stashed op emits the one of the latest
\* begin not yet ended, into the current builder, and takes it off the stack
EndEmitsLatestOpen ==
    (AtOp("EndUnclippedLayerOp") /\ currentLayer(FB).activeUnclippedSaveLayers # <<>>)
        => LET k == currentLayerIndex(FB) + 1
               lb == mLayerBuilders[k]
               new == NewlyReceived(k)
               emitted == Last(new)
           IN  /\ new # <<>>
               /\ emitted.kind = "op"
               /\ emitted.opId = "CopyFromLayerOp"
               /\ emitted.batchId = "CopyFromLayer"
               /\ emitted.layer = Last(lb.activeUnclippedSaveLayers).layer
               /\ \A h \in OpenHandles(lb) : h <= emitted.layer
               /\ \A i \in 1 .. Len(new) - 1 : new[i].opId = "SimpleRectsOp"
               /\ mLayerBuilders'[k].activeUnclippedSaveLayers
                      = Front(lb.activeUnclippedSaveLayers)
               /\ \A j \in 1 .. Len(mLayerBuilders) :
                      j # k => mLayerBuilders'[j] = mLayerBuilders[j]

\* C31: unclipped save-layers pair last-in-first-out within one layer
\* builder: each EndUnclippedLayerOp emits the CopyFromLayer op stashed by the
\* most recent BeginUnclippedLayerOp of that builder not yet ended, each
\* stashed op is emitted at most once, and when the construction of a frame
\* whose display lists pair their unclipped save-layers ends, the stack of
\* every builder is empty
C31_UnclippedLayersPairLifo ==
    /\ [](Constructed => StashIsOpenLayers)
    /\ [][EndEmitsLatestOpen]_vars
    /\ [](Done => \A k \in 1 .. Len(mLayerBuilders) :
                      mLayerBuilders[k].activeUnclippedSaveLayers = <<>>)

\* the build is over, a builder received the copy-from op of an inner
\* unclipped save-layer before that of the outer one, and no stack holds
\* anything
C31_Witness ==
    /\ Done
    /\ \A k \in 1 .. Len(mLayerBuilders) :
           mLayerBuilders[k].activeUnclippedSaveLayers = <<>>
    /\ \E k \in 1 .. Len(mLayerBuilders) :
           \E c, d \in ReceivedOps(mLayerBuilders[k], "CopyFromLayerOp") :
               /\ c < d
               /\ mLayerBuilders[k].received[c].layer > mLayerBuilders[k].received[d].layer


----------------------------------------------------------------------------
\* deferNodePropsAndOps is at a translucent node that is not rejected and
\* holds no layer, and the step goes on to defer the ops of its display list
DefersTranslucentNode ==
    /\ Running("deferNodePropsAndOps", "start")
    /\ renderNodes[top.node].alpha < AlphaOne
    /\ ~NodeRejected(renderNodes[top.node])
    /\ ~renderNodes[top.node].hasLayer
    /\ stack' # <<>>
    /\ Last(stack').fn = "deferNodeOps"
    /\ Last(stack').node = top.node

\* the node's alpha as an SkPaint holds it, 0 .. 255
PaintAlpha(p) == (255 * p.alpha) \div AlphaOne

\* C32: the ops of a translucent node without a layer buffer are deferred
\* with the node's alpha applied exactly one way: the alpha of the current
\* snapshot was multiplied by it, or the ops lie between a BeginLayerOp and an
\* EndLayerOp whose paint carries it; never with neither, whatever the clip
\* flags and clip bounds are
C32_NodeAlphaAppliedOnce ==
    [][DefersTranslucentNode
        => LET p == renderNodes[top.node]
               pushed == Len(mLayerBuilders') = Len(mLayerBuilders) + 1
               scaled ==
                   /\ Len(mLayerBuilders') = Len(mLayerBuilders)
                   /\ Len(stack') = Len(stack)
                   /\ Last(mCanvasState').alpha
                          = (Last(mCanvasState).alpha * p.alpha) \div AlphaOne
               inLayer ==
                   /\ pushed
                   /\ Len(stack') = Len(stack) + 1
                   /\ stack'[Len(stack)].fn = "deferNodePropsAndOps"
                   /\ stack'[Len(stack)].pc = "endLayer"
                   /\ Last(mLayerBuilders').beginLayerOp.opId = "BeginLayerOp"
                   /\ Last(mLayerBuilders').beginLayerOp.paint.alpha = PaintAlpha(p)
                   /\ Last(mCanvasState').alpha = Last(mCanvasState).alpha
           IN  scaled \/ inLayer]_vars


----------------------------------------------------------------------------
\* what makes builder lb the builder it is
BuilderIdentity(lb) ==
    <<lb.width, lb.height, lb.repaintRect, lb.beginLayerOp, lb.renderNode>>

\* the step pushes an index onto the layer stack
PushesLayer ==
    /\ Len(mLayerStack') = Len(mLayerStack) + 1
    /\ Front(mLayerStack') = mLayerStack

\* C33: in every reachable state the entries of the layer stack strictly
\* increase from bottom to top and each is an index into layerBuilders;
\* layerBuilders only grows by appending, a builder never changes its index,
\* and an index pushed onto the layer stack is that of a builder appended by
\* the same step, so no index is pushed twice during a build
C33_LayerStackIndexesStableBuilders ==
    /\ [](/\ \A i \in 1 .. Len(mLayerStack) :
                 mLayerStack[i] \in 0 .. Len(mLayerBuilders) - 1
          /\ \A i, j \in 1 .. Len(mLayerStack) :
                 i < j => mLayerStack[i] < mLayerStack[j])
    /\ [][/\ Len(mLayerBuilders') \in {Len(mLayerBuilders), Len(mLayerBuilders) + 1}
          /\ \A k \in 1 .. Len(mLayerBuilders) :
                 BuilderIdentity(mLayerBuilders'[k]) = BuilderIdentity(mLayerBuilders[k])
          /\ \/ mLayerStack' = mLayerStack
             \/ mLayerStack # <<>> /\ mLayerStack' = Front(mLayerStack)
             \/ /\ PushesLayer
                /\ Len(mLayerBuilders') = Len(mLayerBuilders) + 1
                /\ Last(mLayerStack') = Len(mLayerBuilders)
          /\ Len(mLayerBuilders') = Len(mLayerBuilders) + 1 => PushesLayer]_vars

\* two builders above the primary one are on the layer stack, and a builder
\* of a save-layer that was popped before lies between them
C33_Witness ==
    /\ Constructed
    /\ Len(mLayerStack) = 3
    /\ mLayerStack[3] > mLayerStack[2] + 1


----------------------------------------------------------------------------
\* the builders whose batches hold a LayerOp that draws builder index k
LayerOpHolders(k) ==
    {j \in 1 .. Len(mLayerBuilders) :
        \E b \in 1 .. Len(mLayerBuilders[j].batches) :
            \E o \in 1 .. Len(mLayerBuilders[j].batches[b].ops) :
                /\ mLayerBuilders[j].batches[b].ops[o].opId = "LayerOp"
                /\ mLayerBuilders[j].batches[b].ops[o].layer = k}

\* the builders made for a clipped save-layer that hold ops
SaveLayersWithOps ==
    {k \in 1 .. Len(mLayerBuilders) - 1 :
        /\ mLayerBuilders[k + 1].beginLayerOp # NoOp
        /\ mLayerBuilders[k + 1].batches # <<>>}

\* C34: at the end of construction every builder made for a clipped
\* save-layer that still holds ops is drawn by a LayerOp held in another
\* builder, whatever the nesting of the save-layers is
C34_SaveLayerWithOpsIsDrawn ==
    Done => \A k \in SaveLayersWithOps : LayerOpHolders(k) \ {k + 1} # {}


----------------------------------------------------------------------------
\* the frames of the call stack that are in the loop of defer3dChildren
LoopFrames ==
    {d \in 1 .. Len(stack) :
        stack[d].fn = "defer3dChildren" /\ stack[d].pc = "loop"}

\* the places of the log at which the call of frame f deferred a body or
\* attempted a shadow
LoopPlaces(ev, f) ==
    {i \in 1 .. Len(log) :
        /\ log[i].ev = ev /\ log[i].inst = f.inst /\ log[i].parent = f.node
        /\ log[i].chunk = f.chunk /\ log[i].mode = f.mode}

\* the index the loop of frame f started from
StartIndex(f) ==
    IF f.mode = "Negative" THEN 0
    ELSE Cardinality({i \in 1 .. Len(f.zTranslatedNodes) : f.zTranslatedNodes[i].key < 0})

\* drawIndex <= shadowIndex <= endIndex <= size in every loop frame, and what
\* the loop has done so far is counted by its two indices
LoopIndicesInRange ==
    \A d \in LoopFrames :
        LET f == stack[d]
        IN  /\ StartIndex(f) <= f.drawIndex
            /\ f.drawIndex <= f.shadowIndex
            /\ f.shadowIndex <= f.endIndex
            /\ f.endIndex <= Len(f.zTranslatedNodes)
            /\ {log[i].idx : i \in LoopPlaces("body", f)} = StartIndex(f) .. f.drawIndex - 1
            /\ Cardinality(LoopPlaces("body", f)) = f.drawIndex - StartIndex(f)
            /\ f.mode = "Negative" => LoopPlaces("shadow", f) = {}
            /\ f.mode = "Positive" =>
                   /\ {log[i].idx : i \in LoopPlaces("shadow", f)}
                          = StartIndex(f) .. f.shadowIndex - 1
                   /\ Cardinality(LoopPlaces("shadow", f)) = f.shadowIndex - StartIndex(f)

\* a step of the loop reads zTranslatedNodes below endIndex only and moves
\* one of the two indices up by one; the step that leaves the loop finds
\* both at endIndex
LoopStep ==
    Running("defer3dChildren", "loop") =>
        \/ /\ ShadowIsNext(top)
           /\ top.shadowIndex < top.endIndex
           /\ log' = Append(log, Last(log'))
           /\ Last(log').ev = "shadow" /\ Last(log').idx = top.shadowIndex
           /\ stack'[Len(stack)].shadowIndex = top.shadowIndex + 1
           /\ stack'[Len(stack)].drawIndex = top.drawIndex
        \/ /\ ~ShadowIsNext(top)
           /\ top.drawIndex < top.endIndex
           /\ log' = Append(log, Last(log'))
           /\ Last(log').ev = "body" /\ Last(log').idx = top.drawIndex
           /\ stack'[Len(stack)].drawIndex = top.drawIndex + 1
           /\ stack'[Len(stack)].shadowIndex = top.shadowIndex
        \/ /\ top.drawIndex = top.endIndex
           /\ top.shadowIndex = top.endIndex
           /\ stack' = Pop(stack)
           /\ log' = log

\* C35: the loop of defer3dChildren terminates, keeps
\* drawIndex <= shadowIndex <= endIndex, never reads zTranslatedNodes at an
\* index >= endIndex, and has deferred endIndex - startIndex bodies when it
\* ends and, in Positive mode, attempted as many shadows
C35_Defer3dChildrenLoop ==
    /\ []LoopIndicesInRange
    /\ [][LoopStep]_vars
    /\ (LoopFrames # {}) ~> (LoopFrames = {})

\* a loop in Positive mode that has attempted the shadows of two casters
\* before deferring the body of the first, and has one more child to go
C35_Witness ==
    /\ Running("defer3dChildren", "loop")
    /\ top.mode = "Positive"
    /\ top.shadowIndex = top.drawIndex + 2
    /\ top.shadowIndex < top.endIndex


----------------------------------------------------------------------------
\* C36: getFloats terminates for every string and every range start < end:
\* each iteration of its loop strictly increases startPosition, because
\* extract reports an end position strictly greater than its start whenever
\* it reports that the number ended on a '-' or a '.'
C36_GetFloatsTerminates ==
    /\ [][parser.called = "loop" /\ parser'.called = "loop"
            => /\ parser'.startPosition > parser.startPosition
               /\ parser'.startPosition <= parser.end + 1
               /\ parser'.endPosition >= parser.startPosition
               /\ parser'.endWithNegOrDot => parser'.endPosition > parser.startPosition]_vars
    /\ (parser.called = "getFloats") ~> (parser.called = "returned")
    /\ [](parser.called = "returned"
            => parser.outPoints = getFloats(parser.pathStr, parser.start, parser.end))

\* the loop has met a '-' inside the range, kept it for the next number and
\* goes on from it
C36_Witness ==
    /\ parser.called = "loop"
    /\ parser.endWithNegOrDot
    /\ parser.startPosition = parser.endPosition
    /\ parser.startPosition < parser.end
    /\ At(parser.pathStr, parser.startPosition) = "-"
    /\ Len(parser.outPoints) = 1


----------------------------------------------------------------------------
\* the positions of the chars of the string that are taken for a verb: the
\* first char, and every later char that starts a command
VerbPositions(pathStr) ==
    {p \in 0 .. Len(pathStr) - 1 : p = 0 \/ StartsCommand(At(pathStr, p))}

\* the i-th verb position, counted from 1
VerbPosition(pathStr, i) ==
    CHOOSE p \in VerbPositions(pathStr) :
        Cardinality({q \in VerbPositions(pathStr) : q < p}) = i - 1

\* where the arguments of the i-th verb end: at the next verb or at the end
VerbEnd(pathStr, i) ==
    IF i < Cardinality(VerbPositions(pathStr)) THEN VerbPosition(pathStr, i + 1)
    ELSE Len(pathStr)

\* the sum of the first n entries of verbSizes
RECURSIVE SizesBefore(_, _)
SizesBefore(verbSizes, n) ==
    IF n = 0 THEN 0 ELSE SizesBefore(verbSizes, n - 1) + verbSizes[n]

\* C37: after getPathDataFromString on an empty PathData, verbs and verbSizes
\* have the same length, the sum of verbSizes is the length of points, and
\* the floats of the i-th verb are the slice of points that starts at the sum
\* of the earlier verbSizes
C37_PathDataIsConsistent ==
    (parser.called = "getPathDataFromString" /\ ~parser.isNull) =>
        LET data == parser.data
            pathStr == parser.pathStr
        IN  /\ Len(data.verbs) = Len(data.verbSizes)
            /\ SizesBefore(data.verbSizes, Len(data.verbSizes)) = Len(data.points)
            /\ Len(data.verbs) = Cardinality(VerbPositions(pathStr))
            /\ \A i \in 1 .. Len(data.verbs) :
                   /\ data.verbs[i] = At(pathStr, VerbPosition(pathStr, i))
                   /\ data.verbSizes[i] >= 0
                   /\ SubSeq(data.points, SizesBefore(data.verbSizes, i - 1) + 1,
                             SizesBefore(data.verbSizes, i))
                          = getFloats(pathStr, VerbPosition(pathStr, i), VerbEnd(pathStr, i))

\* a string of two verbs with one float each, the two floats different
C37_Witness ==
    /\ parser.called = "getPathDataFromString"
    /\ ~parser.isNull
    /\ parser.data.verbSizes = <<1, 1>>
    /\ parser.data.points[1] # parser.data.points[2]


----------------------------------------------------------------------------
\* C38: every return of writeBacklightValue after libusb_init succeeded has
\* called libusb_exit exactly once, has freed the device list exactly once if
\* it was obtained and closed the device handle exactly once if it was
\* opened; and no libusb call is handed the device list when
\* libusb_get_device_list failed
C38_LibusbResourcesReleased ==
    /\ (usb.pc = "returned" /\ CallCount(usb.calls, "libusb_get_device_list") > 0)
           => /\ CallCount(usb.calls, "libusb_exit") = 1
              /\ usb.listObtained => CallCount(usb.calls, "libusb_free_device_list") = 1
              /\ usb.opened => CallCount(usb.calls, "libusb_close") = 1
    /\ \A k \in 1 .. Len(usb.calls) : usb.calls[k].usesList => usb.listObtained


----------------------------------------------------------------------------
\* The letters of the strings (those of PathChars and of the examples), the
\* exponent marks among them, and the separators, char by char.
Letters == {"M", "z", "L", "e", "E"}
ExponentMarks == {"e", "E"}
Separators == {" ", ","}

\* the first position from index on, below length, that holds a letter other
\* than an exponent mark; length when there is none
NextCommand(s, length, index) ==
    LET found == {p \in index .. length - 1 : At(s, p) \in Letters \ ExponentMarks}
    IN  IF found = {} THEN Max(index, length)
        ELSE CHOOSE p \in found : \A q \in found : p <= q

\* The positions of (p .. end-1) and of starts where a number starts, found
\* in one pass: current is where the number that holds p started.  A number
\* starts after a separator, at a '-' that is neither the first char of its
\* number nor preceded by an exponent mark, and at a '.' whose number already
\* holds a '.'.
RECURSIVE NumberStarts(_, _, _, _, _)
NumberStarts(s, end, p, current, starts) ==
    IF p >= end THEN starts
    ELSE LET c == At(s, p)
             splits ==
                 /\ p # current
                 /\ \/ c = "-" /\ At(s, p - 1) \notin ExponentMarks
                    \/ c = "." /\ \E k \in current .. p - 1 : At(s, k) = "."
         IN  IF c \in Separators
             THEN NumberStarts(s, end, p + 1, p + 1, starts \cup {p + 1})
             ELSE IF splits
             THEN NumberStarts(s, end, p + 1, p, starts \cup {p})
             ELSE NumberStarts(s, end, p + 1, current, starts)

\* the floats read at the starts of (p .. end-1) that hold a number, in order
RECURSIVE FloatsAt(_, _, _, _)
FloatsAt(s, starts, p, end) ==
    IF p >= end THEN <<>>
    ELSE (IF p \in starts /\ At(s, p) \notin Separators
          THEN <<strtof(s, p)>> ELSE <<>>) \o FloatsAt(s, starts, p + 1, end)

\* the floats of the command at start whose arguments end before end
SplitFloats(s, start, end) ==
    IF At(s, start) \in {"z", "Z"} THEN <<>>
    ELSE FloatsAt(s, NumberStarts(s, end, start + 1, start + 1, {start + 1}),
                  start + 1, end)

\* "M1-2", "M1e-3", "M0.5.5", "M1E-3", "M1e1L1"
SplitExamples ==
    /\ getFloats(<<"M", "1", "-", "2">>, 0, 4) = <<<<"1">>, <<"-", "2">>>>
    /\ getFloats(<<"M", "1", "e", "-", "3">>, 0, 5) = <<<<"1", "e", "-", "3">>>>
    /\ getFloats(<<"M", "0", ".", "5", ".", "5">>, 0, 6)
           = <<<<"0", ".", "5">>, <<".", "5">>>>
    /\ getFloats(<<"M", "1", "E", "-", "3">>, 0, 5) = <<<<"1", "E", "-", "3">>>>
    /\ nextStart(<<"M", "1", "e", "1", "L", "1">>, 6, 1) = 4
    /\ nextStart(<<"M", "1", "E", "1", "L", "1">>, 6, 1) = 4

\* C39: in the string a call was given, the next command from any position
\* on is the next letter other than 'e' and 'E'; the floats of every range of
\* it are the numbers split at separators, at a '-' that is not the first
\* char of its number and does not follow 'e'/'E', and at a second '.' of a
\* number; a string of one command parsed by getPathDataFromString holds
\* these floats; and "1-2" gives two floats, "1e-3" one and "0.5.5" two
C39_SplitsCommandsAndNumbers ==
    /\ SplitExamples
    /\ ~parser.isNull =>
          LET s == parser.pathStr
              length == Len(s)
          IN  /\ \A index \in 0 .. length :
                     nextStart(s, length, index) = NextCommand(s, length, index)
              /\ \A start \in 0 .. length - 1 : \A end \in start + 1 .. length :
                     getFloats(s, start, end) = SplitFloats(s, start, end)
              /\ (/\ parser.called = "getPathDataFromString"
                  /\ length > 1
                  /\ NextCommand(s, length, 1) = length)
                     => parser.data.points = SplitFloats(s, 0, length)

\* "M-1-1" is not reachable with MaxStrLen chars; "M1-1" and "M.1.1" are:
\* a call has split its arguments at a '-' inside them
C39_Witness ==
    /\ parser.called = "getPathDataFromString"
    /\ ~parser.isNull
    /\ parser.pathStr = <<"M", "1", "-", "1">>
    /\ parser.data.points = <<<<"1">>, <<"-", "1">>>>
    /\ parser.data.verbs = <<"M">>

====
